---- MODULE Spec2Model ----
(***************************************************************************)
(* Model of the workflow engine of the sales chatbot                       *)
(* (src/src/routes/test-chat.js: class WorkflowEngine and the              *)
(* POST /api/test-chat response extraction).                               *)
(*                                                                         *)
(* Conventions of the translation                                          *)
(*  - A JavaScript string is a sequence of symbols of an abstract          *)
(*    alphabet (TLA+ strings); the empty sequence is the empty string.     *)
(*    Where the code only tests truthiness, undefined, null and '' are     *)
(*    all the empty sequence / the empty TLA+ string "".                   *)
(*  - A node is referred to by its id; Undefined stands for the value      *)
(*    Map.get returns for an id that is not in the graph.                  *)
(*  - Confidences are in hundredths (0.7 is 70); NoConf is an undefined    *)
(*    confidence.  found is "true", "false" or "undef".                    *)
(***************************************************************************)
EXTENDS Integers, Sequences, FiniteSets, TLC

VARIABLES
  wf,             \* the loaded workflow: nodes (id -> node) and templates
  user_message,   \* context.user_message (rewritten by the speech handler)
  metadata,       \* context.metadata
  language,       \* context.language
  messageType,    \* context.messageType (set by the classifier)
  transcribed,    \* context.transcribed (set by the speech handler)
  currentNode,    \* id of currentNode, or Undefined
  pc,             \* "running" inside the while loop, "returned" after it
  iterationCount, \* executionContext.iterationCount
  workflowSteps,  \* executionContext.workflowSteps (the step trace)
  errors,         \* executionContext.errors
  allResults,     \* executionContext.allResults
  lastResult,     \* executionContext.lastResult
  tokensUsed,     \* executionContext.tokensUsed
  finalResponse,  \* executionContext.finalResponse
  visitedNodes,   \* executionContext.visitedNodes
  dispatches,     \* number of executeNode calls made in this run
  guardTripped,   \* "", "ceiling" or "repeat": which guard left the loop
  adapterCalls,   \* number of dispatches that called a capability adapter
  runs,           \* concurrent execute calls on one engine: call -> its context
  sessions,       \* the route's sessions Map: session id -> session object
  heap,           \* the session objects ever created, by reference
  requests,       \* the POST /api/test-chat requests and where each stands
  rnode,          \* getNextNode on its own: the node whose routing is resolved
  rresult,        \* getNextNode on its own: the step result passed in
  rtarget         \* getNextNode on its own: the node id returned

vars == <<wf, user_message, metadata, language, messageType, transcribed,
          currentNode, pc, iterationCount, workflowSteps, errors, allResults,
          lastResult, tokensUsed, finalResponse, visitedNodes, dispatches,
          guardTripped, adapterCalls, runs, sessions, heap, requests,
          rnode, rresult, rtarget>>

(***************************************************************************)
(* Program constants                                                       *)
(***************************************************************************)
maxIterations == 100

VisitThreshold == 3

ConfidenceThreshold == 70

NlpFallbackConfidence == 30

NlpDefaultConfidence == 50

(***************************************************************************)
(* Bounds of the model                                                     *)
(***************************************************************************)
\* a successful adapter call reports a token count in 1 .. MaxTokensPerCall
MaxTokensPerCall == 2

Undefined == "undefined"

NoConf == -1

EmptyText == <<>>

ApologyText == <<"I apologize, I couldn't process that request. Please try rephrasing your question.">>

AgentTransferDefault == <<"I'm connecting you with a human agent...">>

(***************************************************************************)
(* Step results                                                            *)
(***************************************************************************)
\* result.data of a handler; every field a handler may set, empty = not set
EmptyData ==
  [present |-> TRUE, message |-> EmptyText, messageType |-> "",
   text |-> EmptyText, intent |-> "", finalResponse |-> EmptyText, optimized |-> EmptyText,
   response |-> EmptyText, formatted |-> EmptyText, language |-> "",
   products |-> <<>>, analysisOk |-> FALSE, escalated |-> FALSE,
   logged |-> FALSE, error |-> EmptyText]

\* result.data === undefined
NoData == [EmptyData EXCEPT !.present = FALSE]

EmptyResult ==
  [defined |-> TRUE, data |-> EmptyData, next |-> "", confidence |-> NoConf,
   found |-> "undef", tokensUsed |-> 0, error |-> EmptyText]

\* context.lastResult === undefined
NoResult == [EmptyResult EXCEPT !.defined = FALSE, !.data = NoData]

\* a || b on strings
Or(a, b) == IF a # EmptyText THEN a ELSE b

(***************************************************************************)
(* Graph model                                                             *)
(***************************************************************************)
DefaultConfig ==
  [defined |-> TRUE, next |-> "", next_high_confidence |-> "",
   next_low_confidence |-> "", next_found |-> "", next_not_found |-> "",
   fallback |-> "", classify |-> <<>>, routes |-> <<>>, template |-> "",
   operation |-> "", include_context |-> FALSE, max_tokens |-> 0,
   top_n |-> 0, language |-> ""]

\* a node whose JSON has no config member
NoConfig == [DefaultConfig EXCEPT !.defined = FALSE]

Node(id, type, config) ==
  [id |-> id, name |-> id, type |-> type, config |-> config]

\* this.nodes.has(id)
HasNode(w, id) == id \in DOMAIN w.nodes

\* this.nodes.get(id), as an id
NodesGet(w, id) == IF HasNode(w, id) THEN id ELSE Undefined

\* getNextNode returning result.next without checking that the node exists
getNextNodeUnchecked(w, node, result) ==
  LET config == IF node.config.defined THEN node.config ELSE DefaultConfig
      conf == result.confidence
  IN  IF result.next # "" THEN NodesGet(w, result.next)
      ELSE IF config.next # "" /\ HasNode(w, config.next) THEN config.next
      ELSE IF config.next_high_confidence # "" /\ conf # NoConf
              /\ conf >= ConfidenceThreshold
              /\ HasNode(w, config.next_high_confidence)
           THEN config.next_high_confidence
      ELSE IF config.next_low_confidence # "" /\ conf # NoConf
              /\ conf < ConfidenceThreshold
              /\ HasNode(w, config.next_low_confidence)
           THEN config.next_low_confidence
      ELSE IF config.next_found # "" /\ result.found = "true"
              /\ HasNode(w, config.next_found)
           THEN config.next_found
      ELSE IF config.next_not_found # "" /\ result.found # "true"
              /\ HasNode(w, config.next_not_found)
           THEN config.next_not_found
      ELSE IF config.fallback # "" /\ HasNode(w, config.fallback)
           THEN config.fallback
      ELSE NodesGet(w, "end")

\* getNextNode with the confidence boundary exclusive on the high side
getNextNodeStrict(w, node, result) ==
  LET config == IF node.config.defined THEN node.config ELSE DefaultConfig
      conf == result.confidence
  IN  IF result.next # "" /\ HasNode(w, result.next) THEN result.next
      ELSE IF config.next # "" /\ HasNode(w, config.next) THEN config.next
      ELSE IF config.next_high_confidence # "" /\ conf # NoConf
              /\ conf > ConfidenceThreshold
              /\ HasNode(w, config.next_high_confidence)
           THEN config.next_high_confidence
      ELSE IF config.next_low_confidence # "" /\ conf # NoConf
              /\ conf <= ConfidenceThreshold
              /\ HasNode(w, config.next_low_confidence)
           THEN config.next_low_confidence
      ELSE IF config.next_found # "" /\ result.found = "true"
              /\ HasNode(w, config.next_found)
           THEN config.next_found
      ELSE IF config.next_not_found # "" /\ result.found # "true"
              /\ HasNode(w, config.next_not_found)
           THEN config.next_not_found
      ELSE IF config.fallback # "" /\ HasNode(w, config.fallback)
           THEN config.fallback
      ELSE NodesGet(w, "end")

\* getNextNode trying config.next before the explicit result.next
getNextNodeConfigFirst(w, node, result) ==
  LET config == IF node.config.defined THEN node.config ELSE DefaultConfig
      conf == result.confidence
  IN  IF config.next # "" /\ HasNode(w, config.next) THEN config.next
      ELSE IF result.next # "" /\ HasNode(w, result.next) THEN result.next
      ELSE IF config.next_high_confidence # "" /\ conf # NoConf
              /\ conf >= ConfidenceThreshold
              /\ HasNode(w, config.next_high_confidence)
           THEN config.next_high_confidence
      ELSE IF config.next_low_confidence # "" /\ conf # NoConf
              /\ conf < ConfidenceThreshold
              /\ HasNode(w, config.next_low_confidence)
           THEN config.next_low_confidence
      ELSE IF config.next_found # "" /\ result.found = "true"
              /\ HasNode(w, config.next_found)
           THEN config.next_found
      ELSE IF config.next_not_found # "" /\ result.found # "true"
              /\ HasNode(w, config.next_not_found)
           THEN config.next_not_found
      ELSE IF config.fallback # "" /\ HasNode(w, config.fallback)
           THEN config.fallback
      ELSE NodesGet(w, "end")

\* the chain with the confidence edges tried before config.next
getNextNodeConfidenceFirst(w, node, result) ==
  LET config == IF node.config.defined THEN node.config ELSE DefaultConfig
      conf == result.confidence
  IN  IF result.next # "" /\ HasNode(w, result.next) THEN result.next
      ELSE IF config.next_high_confidence # "" /\ conf # NoConf
              /\ conf >= ConfidenceThreshold
              /\ HasNode(w, config.next_high_confidence)
           THEN config.next_high_confidence
      ELSE IF config.next_low_confidence # "" /\ conf # NoConf
              /\ conf < ConfidenceThreshold
              /\ HasNode(w, config.next_low_confidence)
           THEN config.next_low_confidence
      ELSE IF config.next # "" /\ HasNode(w, config.next) THEN config.next
      ELSE IF config.next_found # "" /\ result.found = "true"
              /\ HasNode(w, config.next_found)
           THEN config.next_found
      ELSE IF config.next_not_found # "" /\ result.found # "true"
              /\ HasNode(w, config.next_not_found)
           THEN config.next_not_found
      ELSE IF config.fallback # "" /\ HasNode(w, config.fallback)
           THEN config.fallback
      ELSE NodesGet(w, "end")

\* the priority chain: the first reference that is set, applicable and
\* names an existing node; otherwise the node with id end
getNextNode(w, node, result) ==
  LET config == IF node.config.defined THEN node.config ELSE DefaultConfig
      conf == result.confidence
  IN  IF result.next # "" /\ HasNode(w, result.next) THEN result.next
      ELSE IF config.next # "" /\ HasNode(w, config.next) THEN config.next
      ELSE IF config.next_high_confidence # "" /\ conf # NoConf
              /\ conf >= ConfidenceThreshold
              /\ HasNode(w, config.next_high_confidence)
           THEN config.next_high_confidence
      ELSE IF config.next_low_confidence # "" /\ conf # NoConf
              /\ conf < ConfidenceThreshold
              /\ HasNode(w, config.next_low_confidence)
           THEN config.next_low_confidence
      ELSE IF config.next_found # "" /\ result.found = "true"
              /\ HasNode(w, config.next_found)
           THEN config.next_found
      ELSE IF config.next_not_found # "" /\ result.found # "true"
              /\ HasNode(w, config.next_not_found)
           THEN config.next_not_found
      ELSE IF config.fallback # "" /\ HasNode(w, config.fallback)
           THEN config.fallback
      ELSE NodesGet(w, "end")

(***************************************************************************)
(* Templates (workflow.templates)                                          *)
(***************************************************************************)
\* an entry that is an object keyed by language
LangTemplate(byLang) == [kind |-> "object", byLang |-> byLang, text |-> EmptyText]

\* an entry that is a plain string
TextTemplate(text) ==
  [kind |-> "string", byLang |-> [l \in {} |-> EmptyText], text |-> text]

\* byLang[lang], undefined when the language has no entry
LangText(entry, lang) ==
  IF lang \in DOMAIN entry.byLang THEN entry.byLang[lang] ELSE EmptyText

\* the multi-language template lookup shared by formatter, handler and action:
\*   typeof templates[key] === 'object'
\*     ? templates[key][language] || templates[key]['english'] || ''
\*     : templates[key] || ''
TemplateLookup(w, key, lang) ==
  IF key \in DOMAIN w.templates.entries
  THEN LET entry == w.templates.entries[key]
       IN  IF entry.kind = "object"
           THEN Or(LangText(entry, lang), LangText(entry, "english"))
           ELSE entry.text
  ELSE EmptyText

\* context.language || context.lastResult?.data?.language || 'english'
LanguageOf(c) ==
  IF c.language # "" THEN c.language
  ELSE IF c.lastResult.data.language # "" THEN c.lastResult.data.language
  ELSE "english"

(***************************************************************************)
(* Outcomes of one executeNode call: a returned step result or a thrown    *)
(* fault, with the context fields the handler rewrote.                     *)
(***************************************************************************)
Returns(c, result) ==
  [threw |-> FALSE, message |-> EmptyText, result |-> result,
   user_message |-> c.user_message, messageType |-> c.messageType,
   transcribed |-> c.transcribed, adapter |-> FALSE]

Throws(c, message) ==
  [threw |-> TRUE, message |-> message, result |-> NoResult,
   user_message |-> c.user_message, messageType |-> c.messageType,
   transcribed |-> c.transcribed, adapter |-> FALSE]

\* the outcome of a handler that awaited a capability adapter (the language
\* model, the data store, the image or the voice processor)
Calling(o) == [o EXCEPT !.adapter = TRUE]

TypeErrorText == <<"Cannot read properties of undefined">>

AdapterErrorText == <<"adapter failure">>

\* token counts an adapter call may report
TokenCounts == 1 .. MaxTokensPerCall

(***************************************************************************)
(* Node handlers                                                           *)
(***************************************************************************)
handleTrigger(w, node, c) ==
  { Returns(c, [EmptyResult EXCEPT !.data.message = c.user_message]) }

\* config.classify.find(r => r.type === messageType)?.next
RECURSIVE FindByType(_, _)
FindByType(classify, mt) ==
  IF classify = <<>> THEN ""
  ELSE IF classify[1].type = mt THEN classify[1].next
  ELSE FindByType(Tail(classify), mt)

\* config.routes.find(r => r.intent === intent)?.next
RECURSIVE FindByIntent(_, _)
FindByIntent(routes, intent) ==
  IF routes = <<>> THEN ""
  ELSE IF routes[1].intent = intent THEN routes[1].next
  ELSE FindByIntent(Tail(routes), intent)

handleClassifier(w, node, c) ==
  LET mt == IF c.metadata.message_type # "" THEN c.metadata.message_type
            ELSE "text"
  IN  IF ~node.config.defined THEN { Throws(c, TypeErrorText) }
      ELSE { [Returns(c, [EmptyResult EXCEPT
                            !.data.messageType = mt,
                            !.next = FindByType(node.config.classify, mt)])
              EXCEPT !.messageType = mt] }

\* what the language-understanding adapter may answer (parsed JSON content)
NlpContents ==
  { [intent |-> "greeting", confidence |-> 90],
    [intent |-> "complaint", confidence |-> NoConf],
    [intent |-> "", confidence |-> 0] }

\* the degraded result of handleNLP
NlpDegraded(message) ==
  [EmptyResult EXCEPT !.data.intent = "general_question",
                      !.confidence = NlpFallbackConfidence,
                      !.error = message]

\* content.confidence || 0.5
NlpConfidence(conf) ==
  IF conf = NoConf \/ conf = 0 THEN NlpDefaultConfidence ELSE conf

handleNLP(w, node, c) ==
  LET message == Or(c.user_message, c.lastResult.data.message)
  IN  IF message = EmptyText
      THEN { Returns(c, NlpDegraded(<<"No message to process">>)) }
      ELSE IF ~node.config.defined THEN { Throws(c, TypeErrorText) }
      ELSE { Calling(Returns(c, [EmptyResult EXCEPT
                                   !.data.intent = content.intent,
                                   !.confidence = NlpConfidence(content.confidence),
                                   !.tokensUsed = t]))
               : content \in NlpContents, t \in TokenCounts }
           \cup { Calling(Returns(c, NlpDegraded(AdapterErrorText))) }

\* handleRouter ignoring the matched route
handleRouterFallbackOnly(w, node, c) ==
  LET intent == c.lastResult.data.intent
  IN  IF ~node.config.defined THEN { Throws(c, TypeErrorText) }
      ELSE LET routeNext == FindByIntent(node.config.routes, intent)
           IN  { Returns(c, [EmptyResult EXCEPT
                               !.data.intent = intent,
                               !.next = node.config.fallback]) }

handleRouter(w, node, c) ==
  LET intent == c.lastResult.data.intent
  IN  IF ~node.config.defined THEN { Throws(c, TypeErrorText) }
      ELSE LET routeNext == FindByIntent(node.config.routes, intent)
           IN  { Returns(c, [EmptyResult EXCEPT
                               !.data.intent = intent,
                               !.next = IF routeNext # "" THEN routeNext
                                        ELSE node.config.fallback]) }

\* data.questions is set by no handler, so the '{questions}' substitution of
\* handleHandler and handleFormatter never changes the template text
handleHandler(w, node, c) ==
  IF ~node.config.defined \/ ~w.templates.defined
  THEN { Throws(c, TypeErrorText) }
  ELSE LET response == TemplateLookup(w, node.config.template, LanguageOf(c))
       IN  { Returns(c, [EmptyResult EXCEPT !.data.response = response,
                                            !.data.formatted = response,
                                            !.data.finalResponse = response]) }

handleEscalation(w, node, c) ==
  IF ~w.templates.defined \/ ~node.config.defined
  THEN { Throws(c, TypeErrorText) }
  ELSE LET response == Or(TemplateLookup(w, "agent_transfer", LanguageOf(c)),
                          AgentTransferDefault)
       IN  { Returns(c, [EmptyResult EXCEPT
                           !.data.escalated = TRUE,
                           !.data.response = response,
                           !.data.formatted = response,
                           !.data.finalResponse = response,
                           !.next = IF node.config.next # ""
                                    THEN node.config.next
                                    ELSE "response_sender"]) }

\* optimized || response || formatted || finalResponse of one data record
ResponseOf(data) ==
  Or(Or(Or(data.optimized, data.response), data.formatted), data.finalResponse)

\* backward scan of allResults[1..i] for the first data with response text
RECURSIVE ScanResults(_, _)
ScanResults(results, i) ==
  IF i = 0 THEN EmptyText
  ELSE IF results[i].data.present /\ ResponseOf(results[i].data) # EmptyText
       THEN ResponseOf(results[i].data)
  ELSE ScanResults(results, i - 1)

\* `${intent}_response`, or 'greeting' for the greeting intent
ActionTemplateKey(intent) ==
  CASE intent = "greeting" -> "greeting"
    [] intent = "complaint" -> "complaint_response"
    [] intent = "general_question" -> "general_question_response"
    [] OTHER -> "other_response"

\* the action handler without the closing `|| 'I apologize, ...'`
handleActionNoLiteral(w, node, c) ==
  LET found == Or(IF c.lastResult.data.present
                  THEN ResponseOf(c.lastResult.data) ELSE EmptyText,
                  ScanResults(c.allResults, Len(c.allResults)))
  IN  IF found # EmptyText
      THEN { Returns(c, [EmptyResult EXCEPT !.data.finalResponse = found]) }
      ELSE IF ~w.templates.defined THEN { Throws(c, TypeErrorText) }
      ELSE LET intent == IF c.lastResult.data.intent # ""
                         THEN c.lastResult.data.intent ELSE "greeting"
               lang == LanguageOf(c)
               template == Or(TemplateLookup(w, ActionTemplateKey(intent), lang),
                              TemplateLookup(w, "greeting", lang))
           IN  { Returns(c, [EmptyResult EXCEPT
                               !.data.finalResponse = template]) }

\* the scan of workflowSteps (priority 2) reads step.result.data, which the
\* trace never stores, so it finds nothing and is left out
handleAction(w, node, c) ==
  LET found == Or(IF c.lastResult.data.present
                  THEN ResponseOf(c.lastResult.data) ELSE EmptyText,
                  ScanResults(c.allResults, Len(c.allResults)))
  IN  IF found # EmptyText
      THEN { Returns(c, [EmptyResult EXCEPT !.data.finalResponse = found]) }
      ELSE IF ~w.templates.defined THEN { Throws(c, TypeErrorText) }
      ELSE LET intent == IF c.lastResult.data.intent # ""
                         THEN c.lastResult.data.intent ELSE "greeting"
               lang == LanguageOf(c)
               template == Or(TemplateLookup(w, ActionTemplateKey(intent), lang),
                              TemplateLookup(w, "greeting", lang))
           IN  { Returns(c, [EmptyResult EXCEPT
                               !.data.finalResponse = Or(template, ApologyText)]) }

\* processImage reporting the tokens of a failed analysis
processImageFailureTokens ==
  { [success |-> TRUE, error |-> EmptyText, tokensUsed |-> t] : t \in TokenCounts }
  \cup { [success |-> FALSE, error |-> AdapterErrorText, tokensUsed |-> t]
         : t \in TokenCounts }

\* ImageProcessor.processImage: the analysis with its token count, or
\* {success: false, error, tokensUsed: 0}; it catches every failure itself
processImage ==
  { [success |-> TRUE, error |-> EmptyText, tokensUsed |-> t] : t \in TokenCounts }
  \cup { [success |-> FALSE, error |-> AdapterErrorText, tokensUsed |-> 0] }

handleVision(w, node, c) ==
  IF c.metadata.media_url = "" /\ c.metadata.image_url = ""
  THEN { Returns(c, [EmptyResult EXCEPT !.data.error = <<"No image URL provided">>,
                                        !.error = <<"Missing image URL">>]) }
  ELSE { Calling(IF analysis.success
                 THEN Returns(c, [EmptyResult EXCEPT
                                    !.data.analysisOk = TRUE,
                                    !.tokensUsed = analysis.tokensUsed])
                 ELSE Returns(c, [EmptyResult EXCEPT
                                    !.data.error = analysis.error,
                                    !.tokensUsed = analysis.tokensUsed,
                                    !.error = analysis.error]))
         : analysis \in processImage }

TranscribedText == <<"transcribed message">>

\* VoiceProcessor.transcribe: {text, language, success: true} or
\* {text: '', success: false, error}; it catches every failure itself
transcribe ==
  { [success |-> TRUE, text |-> TranscribedText, language |-> "malay",
     error |-> EmptyText],
    [success |-> TRUE, text |-> EmptyText, language |-> "",
     error |-> EmptyText],
    [success |-> FALSE, text |-> EmptyText, language |-> "",
     error |-> AdapterErrorText] }

\* handleSpeech without the write of context.user_message
handleSpeechNoUpdate(w, node, c) ==
  IF c.metadata.voice_url = "" /\ c.metadata.audio_url = ""
  THEN { Returns(c, [EmptyResult EXCEPT !.data.error = <<"No audio URL provided">>,
                                        !.error = <<"Missing audio URL">>]) }
  ELSE IF ~node.config.defined
  THEN { Returns(c, [EmptyResult EXCEPT !.data.error = TypeErrorText,
                                        !.error = TypeErrorText]) }
  ELSE { Calling(IF tr.success
                 THEN [Returns(c, [EmptyResult EXCEPT
                                     !.data.text = tr.text,
                                     !.data.language = tr.language])
                       EXCEPT !.transcribed = TRUE]
                 ELSE Returns(c, [EmptyResult EXCEPT !.data.error = tr.error,
                                                     !.error = tr.error]))
         : tr \in transcribe }

handleSpeech(w, node, c) ==
  IF c.metadata.voice_url = "" /\ c.metadata.audio_url = ""
  THEN { Returns(c, [EmptyResult EXCEPT !.data.error = <<"No audio URL provided">>,
                                        !.error = <<"Missing audio URL">>]) }
  ELSE IF ~node.config.defined
  THEN { Returns(c, [EmptyResult EXCEPT !.data.error = TypeErrorText,
                                        !.error = TypeErrorText]) }
  ELSE { Calling(IF tr.success
                 THEN [Returns(c, [EmptyResult EXCEPT
                                     !.data.text = tr.text,
                                     !.data.language = tr.language])
                       EXCEPT !.user_message = tr.text, !.transcribed = TRUE]
                 ELSE Returns(c, [EmptyResult EXCEPT !.data.error = tr.error,
                                                     !.error = tr.error]))
         : tr \in transcribe }

\* the popularity column of the products in the data store
Popularity(p) == CASE p = "p1" -> 120 [] p = "p2" -> 90 [] OTHER -> 0

\* what the data store may return for a product query: findMany with
\* orderBy popularity desc, the most popular product first
SearchResults == { <<>>, <<"p1", "p2">> }

\* the result handleDatabase builds when an operation throws
DatabaseFailed(message) == [EmptyResult EXCEPT !.found = "false", !.error = message]

FoundFlag(products) == IF Len(products) > 0 THEN "true" ELSE "false"

\* prisma.product.findMany answers with a product list or rejects
semanticProductSearch(w, node, c) ==
  { [EmptyResult EXCEPT !.data.products = ps, !.found = FoundFlag(ps)]
    : ps \in SearchResults }
  \cup { DatabaseFailed(AdapterErrorText) }

\* prisma.product.findFirst answers with a product, with null, or rejects
getProductPrice(w, node, c) ==
  { [EmptyResult EXCEPT !.found = "true"], [EmptyResult EXCEPT !.found = "false"],
    DatabaseFailed(AdapterErrorText) }

getOrderStatus(w, node, c) == { [EmptyResult EXCEPT !.found = "false"] }

\* the analysis may carry no product name, category or brand (no search terms)
visualProductSearch(w, node, c) ==
  IF ~c.lastResult.data.analysisOk
  THEN { [EmptyResult EXCEPT !.found = "false"] }
  ELSE { [EmptyResult EXCEPT !.found = "false"] }
       \cup { [EmptyResult EXCEPT !.data.products = ps,
                                  !.data.analysisOk = TRUE,
                                  !.found = FoundFlag(ps)] : ps \in SearchResults }
       \cup { DatabaseFailed(AdapterErrorText) }

logConversation(w, node, c) ==
  LET d == c.lastResult.data
      previousResponse == Or(Or(Or(d.finalResponse, d.optimized), d.response),
                             d.formatted)
  IN  { [EmptyResult EXCEPT !.data.logged = TRUE,
                            !.data.finalResponse = previousResponse,
                            !.data.response = previousResponse,
                            !.data.optimized = previousResponse] }

\* whether the operation awaited the data store to produce this result
StoreCalled(operation, r) ==
  CASE operation \in { "semantic_search", "get_price" } -> TRUE
    [] operation = "visual_search" -> r.data.analysisOk \/ r.error # EmptyText
    [] OTHER -> FALSE

handleDatabase(w, node, c) ==
  IF ~node.config.defined THEN { Throws(c, TypeErrorText) }
  ELSE LET operation == node.config.operation
           results ==
             CASE operation = "semantic_search" -> semanticProductSearch(w, node, c)
               [] operation = "get_price" -> getProductPrice(w, node, c)
               [] operation = "get_order_status" -> getOrderStatus(w, node, c)
               [] operation = "log" -> logConversation(w, node, c)
               [] operation = "visual_search" -> visualProductSearch(w, node, c)
               [] OTHER -> { [EmptyResult EXCEPT !.found = "false"] }
       IN  { IF StoreCalled(operation, r) THEN Calling(Returns(c, r))
             ELSE Returns(c, r) : r \in results }

\* the first n elements of a list (Array.slice(0, n))
Slice(list, n) == SubSeq(list, 1, IF n < Len(list) THEN n ELSE Len(list))

Reverse(list) == [i \in 1 .. Len(list) |-> list[Len(list) + 1 - i]]

\* confidences the ranking adapter may report (NoConf: none in its answer)
RankConfidences == { NoConf, 40, 90 }

\* content.confidence || 0.7
RankConfidence(conf) == IF conf = NoConf \/ conf = 0 THEN 70 ELSE conf

\* ProductRecommender.recommend: the data-store search may reject (nothing
\* catches it); rankProducts catches its own adapter failure (confidence 0.5);
\* the object it returns has no tokensUsed member
recommend ==
  { [threw |-> TRUE, products |-> <<>>, confidence |-> 0] }
  \cup { [threw |-> FALSE, products |-> <<>>, confidence |-> 0] }
  \cup { [threw |-> FALSE, products |-> ps, confidence |-> conf]
         : ps \in { <<>>, Slice(<<"p1", "p2">>, 3) },
           conf \in { RankConfidence(x) : x \in RankConfidences } \cup { 50 } }

\* the ranker whose fallback forgets the slice(0, top_n)
handleMLFallbackAll(w, node, c) ==
  LET products == c.lastResult.data.products
      top_n == IF node.config.top_n # 0 THEN node.config.top_n ELSE 5
  IN  IF node.id = "product_recommender"
      THEN { Calling(IF r.threw THEN Throws(c, AdapterErrorText)
                     ELSE Returns(c, [EmptyResult EXCEPT
                                        !.data.products = r.products,
                                        !.confidence = r.confidence]))
             : r \in recommend }
      ELSE IF node.id = "bike_ranker" \/ node.id = "product_ranker"
      THEN IF Len(products) = 0
           THEN { Returns(c, [EmptyResult EXCEPT !.confidence = 0]) }
           ELSE IF ~node.config.defined THEN { Throws(c, TypeErrorText) }
           ELSE { Calling(Returns(c, [EmptyResult EXCEPT
                                        !.data.products = Slice(ranked, top_n),
                                        !.tokensUsed = t,
                                        !.confidence = RankConfidence(conf)]))
                  : ranked \in { products, Reverse(products), <<>> },
                    t \in TokenCounts, conf \in RankConfidences }
                \cup { Calling(Returns(c, [EmptyResult EXCEPT
                                             !.data.products = products,
                                             !.confidence = 50])) }
      ELSE { Returns(c, [EmptyResult EXCEPT !.confidence = 0]) }

\* the ranker without its `products.length === 0` early return
handleMLNoEmptyCheck(w, node, c) ==
  LET products == c.lastResult.data.products
      top_n == IF node.config.top_n # 0 THEN node.config.top_n ELSE 5
  IN  IF node.id = "product_recommender"
      THEN { Calling(IF r.threw THEN Throws(c, AdapterErrorText)
                     ELSE Returns(c, [EmptyResult EXCEPT
                                        !.data.products = r.products,
                                        !.confidence = r.confidence]))
             : r \in recommend }
      ELSE IF node.id = "bike_ranker" \/ node.id = "product_ranker"
      THEN IF FALSE
           THEN { Returns(c, [EmptyResult EXCEPT !.confidence = 0]) }
           ELSE IF ~node.config.defined THEN { Throws(c, TypeErrorText) }
           ELSE { Calling(Returns(c, [EmptyResult EXCEPT
                                        !.data.products = Slice(ranked, top_n),
                                        !.tokensUsed = t,
                                        !.confidence = RankConfidence(conf)]))
                  : ranked \in { products, Reverse(products), <<>> },
                    t \in TokenCounts, conf \in RankConfidences }
                \cup { Calling(Returns(c, [EmptyResult EXCEPT
                                             !.data.products = Slice(products, top_n),
                                             !.confidence = 50])) }
      ELSE { Returns(c, [EmptyResult EXCEPT !.confidence = 0]) }

\* the ml handler: the recommender, the ranker with its fallback in the catch
\* block (the candidates as received, cut to top_n), and the default
handleML(w, node, c) ==
  LET products == c.lastResult.data.products
      top_n == IF node.config.top_n # 0 THEN node.config.top_n ELSE 5
  IN  IF node.id = "product_recommender"
      THEN { Calling(IF r.threw THEN Throws(c, AdapterErrorText)
                     ELSE Returns(c, [EmptyResult EXCEPT
                                        !.data.products = r.products,
                                        !.confidence = r.confidence]))
             : r \in recommend }
      ELSE IF node.id = "bike_ranker" \/ node.id = "product_ranker"
      THEN IF Len(products) = 0
           THEN { Returns(c, [EmptyResult EXCEPT !.confidence = 0]) }
           ELSE IF ~node.config.defined THEN { Throws(c, TypeErrorText) }
           ELSE { Calling(Returns(c, [EmptyResult EXCEPT
                                        !.data.products = Slice(ranked, top_n),
                                        !.tokensUsed = t,
                                        !.confidence = RankConfidence(conf)]))
                  : ranked \in { products, Reverse(products), <<>> },
                    t \in TokenCounts, conf \in RankConfidences }
                \cup { Calling(Returns(c, [EmptyResult EXCEPT
                                             !.data.products = Slice(products, top_n),
                                             !.confidence = 50])) }
      ELSE { Returns(c, [EmptyResult EXCEPT !.confidence = 0]) }

\* String.replace(placeholder, text): the first occurrence only
RECURSIVE ReplaceFirst(_, _, _)
ReplaceFirst(text, placeholder, by) ==
  IF text = <<>> THEN <<>>
  ELSE IF text[1] = placeholder THEN by \o Tail(text)
  ELSE <<text[1]>> \o ReplaceFirst(Tail(text), placeholder, by)

handleFormatter(w, node, c) ==
  LET products == c.lastResult.data.products
  IN  IF ~node.config.defined \/ ~w.templates.defined
      THEN { Throws(c, TypeErrorText) }
      ELSE LET template == TemplateLookup(w, node.config.template, LanguageOf(c))
               formatted ==
                 IF Len(products) > 0
                 THEN ReplaceFirst(ReplaceFirst(template, "{bikes}", products),
                                   "{products}", products)
                 ELSE template
           IN  { Returns(c, [EmptyResult EXCEPT !.data.formatted = formatted,
                                                !.data.products = products]) }

Whitespace == { " ", "\n" }

\* the length of the run of newlines at the head of a text
RECURSIVE NewlineRun(_)
NewlineRun(text) ==
  IF text # <<>> /\ text[1] = "\n" THEN 1 + NewlineRun(Tail(text)) ELSE 0

\* response.replace(/\n{3,}/g, '\n\n')
RECURSIVE CollapseNewlines(_)
CollapseNewlines(text) ==
  IF text = <<>> THEN <<>>
  ELSE LET run == NewlineRun(text)
       IN  IF run >= 3
           THEN <<"\n", "\n">> \o CollapseNewlines(SubSeq(text, run + 1, Len(text)))
           ELSE IF run > 0
           THEN SubSeq(text, 1, run) \o CollapseNewlines(SubSeq(text, run + 1, Len(text)))
           ELSE <<text[1]>> \o CollapseNewlines(Tail(text))

RECURSIVE TrimStart(_)
TrimStart(text) ==
  IF text # <<>> /\ text[1] \in Whitespace THEN TrimStart(Tail(text)) ELSE text

\* String.trim()
Trim(text) == Reverse(TrimStart(Reverse(TrimStart(text))))

DefaultMaxTokens == 500

CharsPerToken == 4

handleOptimizer(w, node, c) ==
  IF ~node.config.defined THEN { Throws(c, TypeErrorText) }
  ELSE LET response == Trim(CollapseNewlines(c.lastResult.data.formatted))
           estimatedTokens == (Len(response) + CharsPerToken - 1) \div CharsPerToken
           maxTokens == IF node.config.max_tokens # 0 THEN node.config.max_tokens
                        ELSE DefaultMaxTokens
           optimized ==
             IF estimatedTokens > maxTokens
             THEN SubSeq(response, 1, maxTokens * CharsPerToken) \o <<".", ".", ".">>
             ELSE response
       IN  { Returns(c, [EmptyResult EXCEPT !.data.optimized = optimized]) }

(***************************************************************************)
(* executeNode: dispatch on node.type                                      *)
(***************************************************************************)
\* the dispatch with a default case that throws
executeNodeStrict(w, node, c) ==
  CASE node.type = "trigger" -> handleTrigger(w, node, c)
    [] node.type = "classifier" -> handleClassifier(w, node, c)
    [] node.type = "nlp" -> handleNLP(w, node, c)
    [] node.type = "router" -> handleRouter(w, node, c)
    [] node.type = "database" -> handleDatabase(w, node, c)
    [] node.type = "ml" -> handleML(w, node, c)
    [] node.type = "formatter" -> handleFormatter(w, node, c)
    [] node.type = "optimizer" -> handleOptimizer(w, node, c)
    [] node.type = "handler" -> handleHandler(w, node, c)
    [] node.type = "escalation" -> handleEscalation(w, node, c)
    [] node.type = "action" -> handleAction(w, node, c)
    [] node.type = "vision" -> handleVision(w, node, c)
    [] node.type = "speech" -> handleSpeech(w, node, c)
    [] OTHER -> { Throws(c, <<"Unknown node type">>) }

executeNode(w, node, c) ==
  CASE node.type = "trigger" -> handleTrigger(w, node, c)
    [] node.type = "classifier" -> handleClassifier(w, node, c)
    [] node.type = "nlp" -> handleNLP(w, node, c)
    [] node.type = "router" -> handleRouter(w, node, c)
    [] node.type = "database" -> handleDatabase(w, node, c)
    [] node.type = "ml" -> handleML(w, node, c)
    [] node.type = "formatter" -> handleFormatter(w, node, c)
    [] node.type = "optimizer" -> handleOptimizer(w, node, c)
    [] node.type = "handler" -> handleHandler(w, node, c)
    [] node.type = "escalation" -> handleEscalation(w, node, c)
    [] node.type = "action" -> handleAction(w, node, c)
    [] node.type = "vision" -> handleVision(w, node, c)
    [] node.type = "speech" -> handleSpeech(w, node, c)
    [] OTHER -> { Returns(c, [EmptyResult EXCEPT !.data = c.lastResult.data]) }

(***************************************************************************)
(* Workflows (the content of workflow.json) and inbound messages the       *)
(* runs of the model are started on                                        *)
(***************************************************************************)
Range(seq) == { seq[i] : i \in 1 .. Len(seq) }

\* the constructor: index the node list by id
Workflow(nodeList, templates) ==
  [nodes |-> [id \in { n.id : n \in Range(nodeList) } |->
                CHOOSE n \in Range(nodeList) : n.id = id],
   templates |-> templates]

GreetingText == <<"Hello, how can I help?">>

GreetingMalay == <<"Hai, apa boleh saya bantu?">>

ClarificationText == <<"Please tell me your budget and area.">>

AgentTransferText == <<"Connecting you to an agent.">>

RecommendationText == <<"Here are some options:", "\n", "{products}">>

StdTemplates ==
  [defined |-> TRUE,
   entries |->
     [greeting |-> LangTemplate([english |-> GreetingText, malay |-> GreetingMalay]),
      clarification_questions |-> LangTemplate([english |-> ClarificationText]),
      agent_transfer |-> LangTemplate([english |-> AgentTransferText]),
      bike_recommendation |-> TextTemplate(RecommendationText)]]

\* a workflow.json without a templates member
NoTemplates == [defined |-> FALSE, entries |-> [k \in {} |-> TextTemplate(EmptyText)]]

NextTo(id) == [DefaultConfig EXCEPT !.next = id]

EndNode == Node("end", "end", DefaultConfig)

\* the flow of ARCHITECTURE.md: text, image and voice paths
MainNodes ==
  << Node("start", "trigger", NextTo("message_classifier")),
     Node("message_classifier", "classifier",
          [DefaultConfig EXCEPT !.classify =
             << [type |-> "text", next |-> "language_detector"],
                [type |-> "image", next |-> "image_analyzer"],
                [type |-> "voice", next |-> "voice_transcriber"] >>]),
     Node("language_detector", "nlp", NextTo("intent_router")),
     Node("intent_router", "router",
          [DefaultConfig EXCEPT !.routes =
             << [intent |-> "greeting", next |-> "greeting_handler"],
                [intent |-> "complaint", next |-> "agent_escalation"] >>,
             !.fallback = "clarification_handler"]),
     Node("greeting_handler", "handler",
          [NextTo("response_sender") EXCEPT !.template = "greeting"]),
     Node("clarification_handler", "handler",
          [NextTo("response_sender") EXCEPT !.template = "clarification_questions"]),
     Node("image_analyzer", "vision", NextTo("image_search")),
     Node("image_search", "database",
          [DefaultConfig EXCEPT !.operation = "visual_search",
                                !.next_found = "product_ranker",
                                !.next_not_found = "clarification_handler"]),
     Node("product_ranker", "ml",
          [DefaultConfig EXCEPT !.top_n = 1,
                                !.next_high_confidence = "response_formatter",
                                !.next_low_confidence = "clarification_handler"]),
     Node("response_formatter", "formatter",
          [NextTo("response_optimizer") EXCEPT !.template = "bike_recommendation"]),
     Node("response_optimizer", "optimizer", NextTo("response_sender")),
     Node("voice_transcriber", "speech", NextTo("language_detector")),
     Node("response_sender", "action", NextTo("end")),
     EndNode >>

EscalationNode == Node("agent_escalation", "escalation", NextTo("response_sender"))

MainWorkflow == Workflow(MainNodes \o <<EscalationNode>>, StdTemplates)

\* the same flow without an agent_escalation node
NoEscalationWorkflow == Workflow(MainNodes, StdTemplates)

\* a graph without a start node
NoStartWorkflow == Workflow(<<EndNode>>, StdTemplates)

\* two nodes that route to each other, with no exit edge
CycleWorkflow ==
  Workflow(<< Node("start", "trigger", NextTo("ping")),
              Node("ping", "router", [DefaultConfig EXCEPT !.fallback = "pong"]),
              Node("pong", "router", [DefaultConfig EXCEPT !.fallback = "ping"]),
              Node("response_sender", "action", NextTo("end")),
              EndNode >>, StdTemplates)

\* no templates: the handler and the escalation handler throw
BrokenTemplatesWorkflow ==
  Workflow(<< Node("start", "trigger", NextTo("greeting_handler")),
              Node("greeting_handler", "handler",
                   [NextTo("response_sender") EXCEPT !.template = "greeting"]),
              EscalationNode,
              Node("response_sender", "action", NextTo("end")),
              EndNode >>, NoTemplates)

\* escalation routes into a node that fails again
EscalationLoopWorkflow ==
  Workflow(<< Node("start", "trigger", NextTo("image_analyzer")),
              Node("image_analyzer", "vision", NextTo("response_sender")),
              Node("agent_escalation", "escalation", NextTo("image_analyzer")),
              Node("response_sender", "action", NextTo("end")),
              EndNode >>, StdTemplates)

\* the escalation node configured with a next that names no node
AgentAssignedWorkflow ==
  Workflow(<< Node("start", "trigger", NextTo("agent_escalation")),
              Node("agent_escalation", "escalation", NextTo("agent_assigned")),
              Node("response_sender", "action", NextTo("end")),
              EndNode >>, StdTemplates)

ComplaintMalay == <<"Maaf atas kesulitan.">>

\* a templates member without entries
EmptyTemplates == [defined |-> TRUE, entries |-> [k \in {} |-> TextTemplate(EmptyText)]]

\* only a complaint template, and only in Malay
ComplaintTemplates ==
  [defined |-> TRUE,
   entries |-> [complaint_response |-> LangTemplate([malay |-> ComplaintMalay])]]

ActionTemplates == { StdTemplates, EmptyTemplates, ComplaintTemplates }

\* graphs that reach the action node with and without response text behind it
ActionWorkflows ==
  { Workflow(<< Node("start", "trigger", NextTo("response_sender")),
                Node("response_sender", "action", NextTo("end")),
                EndNode >>, t) : t \in ActionTemplates }
  \cup
  { Workflow(<< Node("start", "trigger", NextTo("language_detector")),
                Node("language_detector", "nlp", NextTo("response_sender")),
                Node("response_sender", "action", NextTo("end")),
                EndNode >>, t) : t \in ActionTemplates }
  \cup
  { Workflow(<< Node("start", "trigger", NextTo("greeting_handler")),
                Node("greeting_handler", "handler",
                     [NextTo("message_classifier") EXCEPT !.template = "greeting"]),
                Node("message_classifier", "classifier",
                     [DefaultConfig EXCEPT !.classify =
                        << [type |-> "text", next |-> "response_sender"] >>]),
                Node("response_sender", "action", NextTo("end")),
                EndNode >>, t) : t \in ActionTemplates }

\* the nodes every recommendation flow ends with
ReplyNodes ==
  << Node("clarification_handler", "handler",
          [NextTo("response_sender") EXCEPT !.template = "clarification_questions"]),
     Node("response_formatter", "formatter",
          [NextTo("response_optimizer") EXCEPT !.template = "bike_recommendation"]),
     Node("response_optimizer", "optimizer", NextTo("response_sender")),
     Node("response_sender", "action", NextTo("end")),
     EscalationNode,
     EndNode >>

\* the recommendation flow: the recommender searches and ranks by itself
RecommenderWorkflow ==
  Workflow(<< Node("start", "trigger", NextTo("product_recommender")),
              Node("product_recommender", "ml",
                   [DefaultConfig EXCEPT
                      !.next_high_confidence = "response_formatter",
                      !.next_low_confidence = "clarification_handler"]) >>
           \o ReplyNodes, StdTemplates)

\* the text search flow: semantic search, then the ranker
SearchWorkflow ==
  Workflow(<< Node("start", "trigger", NextTo("bike_search")),
              Node("bike_search", "database",
                   [DefaultConfig EXCEPT !.operation = "semantic_search",
                                         !.next_found = "bike_ranker",
                                         !.next_not_found = "clarification_handler"]),
              Node("bike_ranker", "ml",
                   [DefaultConfig EXCEPT
                      !.top_n = 1,
                      !.next_high_confidence = "response_formatter",
                      !.next_low_confidence = "clarification_handler"]) >>
           \o ReplyNodes, StdTemplates)

\* an ml node dispatched right after the trigger: no candidate products
MlWorkflows ==
  { Workflow(<< Node("start", "trigger", NextTo(id)),
                Node(id, "ml",
                     [DefaultConfig EXCEPT
                        !.next_high_confidence = "response_formatter",
                        !.next_low_confidence = "clarification_handler"]) >>
             \o ReplyNodes, StdTemplates)
    : id \in { "bike_ranker", "product_ranker", "trend_model" } }

\* graphs whose run ends on a step result without a finalResponse field:
\* a flow without an action node, and a formatter behind the escalation
ExtractWorkflows ==
  { Workflow(<< Node("start", "trigger", NextTo("response_formatter")),
                Node("response_formatter", "formatter",
                     [NextTo("response_optimizer") EXCEPT !.template = "greeting"]),
                Node("response_optimizer", "optimizer", NextTo("end")),
                EndNode >>, StdTemplates),
    Workflow(<< Node("start", "trigger", NextTo("agent_escalation")),
                Node("agent_escalation", "escalation", NextTo("response_formatter")),
                Node("response_formatter", "formatter",
                     [NextTo("end") EXCEPT !.template = "greeting"]),
                EndNode >>, StdTemplates) }

LoggerNode(next) ==
  Node("conversation_logger", "database",
       [NextTo(next) EXCEPT !.operation = "log"])

\* graphs with the conversation logger behind a step with no text, behind
\* a step whose text is an earlier one's, and behind the formatter
LogWorkflows ==
  { Workflow(<< Node("start", "trigger", NextTo("conversation_logger")),
                LoggerNode("response_sender"),
                Node("response_sender", "action", NextTo("end")),
                EndNode >>, StdTemplates),
    Workflow(<< Node("start", "trigger", NextTo("greeting_handler")),
                Node("greeting_handler", "handler",
                     [NextTo("message_classifier") EXCEPT !.template = "greeting"]),
                Node("message_classifier", "classifier",
                     [DefaultConfig EXCEPT !.classify =
                        << [type |-> "text", next |-> "conversation_logger"] >>]),
                LoggerNode("end"),
                EndNode >>, StdTemplates),
    Workflow(<< Node("start", "trigger", NextTo("greeting_handler")),
                Node("greeting_handler", "handler",
                     [NextTo("response_formatter") EXCEPT !.template = "greeting"]),
                Node("response_formatter", "formatter",
                     [NextTo("conversation_logger")
                        EXCEPT !.template = "bike_recommendation"]),
                LoggerNode("end"),
                EndNode >>, StdTemplates) }

\* graphs with a node of a kind executeNode has no case for: behind a step
\* with text, and right after the trigger with a not-found edge
UnknownKindWorkflows ==
  { Workflow(<< Node("start", "trigger", NextTo("greeting_handler")),
                Node("greeting_handler", "handler",
                     [NextTo("webhook_notifier") EXCEPT !.template = "greeting"]),
                Node("webhook_notifier", "webhook", NextTo("response_sender")),
                Node("response_sender", "action", NextTo("end")),
                EscalationNode,
                EndNode >>, StdTemplates),
    Workflow(<< Node("start", "trigger", NextTo("webhook_notifier")),
                Node("webhook_notifier", "webhook",
                     [DefaultConfig EXCEPT !.next_low_confidence = "agent_escalation",
                                           !.next_not_found = "response_sender"]),
                Node("response_sender", "action", NextTo("end")),
                EscalationNode,
                EndNode >>, StdTemplates) }

\* escalation routes into a node that throws on every dispatch
ThrowCycleWorkflow ==
  Workflow(<< Node("start", "trigger", NextTo("broken_classifier")),
              Node("broken_classifier", "classifier", NoConfig),
              Node("agent_escalation", "escalation", NextTo("broken_classifier")),
              Node("response_sender", "action", NextTo("end")),
              EndNode >>, StdTemplates)

\* a node that throws in a graph without agent_escalation
ThrowNoEscalationWorkflow ==
  Workflow(<< Node("start", "trigger", NextTo("broken_classifier")),
              Node("broken_classifier", "classifier", NoConfig),
              Node("response_sender", "action", NextTo("end")),
              EndNode >>, StdTemplates)

\* the routing fields of a node config
RoutingFields ==
  { "next", "next_high_confidence", "next_low_confidence", "next_found",
    "next_not_found", "fallback" }

\* the node a routing field of the probe graphs points at when it is valid
TargetOf(field) == field

\* an id that no graph contains
Ghost == "ghost"

TargetNodes ==
  << Node("next", "handler", NextTo("end")),
     Node("next_high_confidence", "handler", NextTo("end")),
     Node("next_low_confidence", "handler", NextTo("end")),
     Node("next_found", "handler", NextTo("end")),
     Node("next_not_found", "handler", NextTo("end")),
     Node("fallback", "handler", NextTo("end")),
     Node("explicit", "handler", NextTo("end")),
     EndNode >>

\* every config whose routing fields are unset, dangling or valid
RoutingConfigs ==
  { [DefaultConfig EXCEPT !.next = f["next"],
                          !.next_high_confidence = f["next_high_confidence"],
                          !.next_low_confidence = f["next_low_confidence"],
                          !.next_found = f["next_found"],
                          !.next_not_found = f["next_not_found"],
                          !.fallback = f["fallback"]]
    : f \in { g \in [RoutingFields -> { "", Ghost } \cup RoutingFields] :
                \A x \in RoutingFields : g[x] \in { "", Ghost, TargetOf(x) } } }

\* misconfigured graphs: the start node is a probe of some kind
\* whose routing fields and explicit next may name missing nodes
ProbeKinds == { "trigger", "classifier", "nlp", "database" }

ProbeConfigs ==
  { c \in RoutingConfigs :
      /\ Cardinality({ x \in RoutingFields : c[x] = Ghost }) >= 1
      /\ Cardinality({ x \in RoutingFields : c[x] # "" }) <= 2 }

ProbeWorkflows ==
  { Workflow(<< Node("start", kind,
                     [config EXCEPT !.classify =
                        << [type |-> "text", next |-> explicit] >>]) >>
             \o TargetNodes, StdTemplates)
    : kind \in ProbeKinds, config \in ProbeConfigs, explicit \in { "", Ghost } }

TextMessage == <<"hi">>

NoMetadata ==
  [message_type |-> "", media_url |-> "", image_url |-> "", voice_url |-> "",
   audio_url |-> ""]

Input(w, message, meta, lang) ==
  [wf |-> w, user_message |-> message, metadata |-> meta, language |-> lang]

TextMeta == [NoMetadata EXCEPT !.message_type = "text"]

\* the runs of the model: a workflow with an inbound message
Scenarios ==
  { Input(w, m, TextMeta, l)
    : w \in { MainWorkflow, NoEscalationWorkflow },
      m \in { TextMessage, EmptyText }, l \in { "", "malay" } }
  \cup { Input(w, TextMessage,
               [NoMetadata EXCEPT !.message_type = "image", !.media_url = u], "")
         : w \in { MainWorkflow, NoEscalationWorkflow }, u \in { "", "image-url" } }
  \cup { Input(MainWorkflow, m,
               [NoMetadata EXCEPT !.message_type = "voice", !.voice_url = u], "")
         : m \in { EmptyText, TextMessage }, u \in { "", "audio-url" } }
  \cup { Input(w, TextMessage, TextMeta, "")
         : w \in { NoStartWorkflow, CycleWorkflow, BrokenTemplatesWorkflow,
                   EscalationLoopWorkflow, ThrowCycleWorkflow,
                   ThrowNoEscalationWorkflow,
                   RecommenderWorkflow, SearchWorkflow,
                   AgentAssignedWorkflow }
                 \cup MlWorkflows \cup ExtractWorkflows \cup LogWorkflows
                 \cup UnknownKindWorkflows
                 \cup ProbeWorkflows }
  \cup { Input(w, TextMessage, TextMeta, l)
         : w \in ActionWorkflows, l \in { "", "malay" } }

(***************************************************************************)
(* execute: the run driver                                                 *)
(***************************************************************************)
NoNode == Node("", "", NoConfig)

\* no request is being served by the route
RouteIdle == sessions = <<>> /\ heap = <<>> /\ requests = <<>>

\* getNextNode is not applied on its own during a run, and the run is the
\* only execute call on the engine
ResolverIdle ==
  rnode = NoNode /\ rresult = NoResult /\ rtarget = "" /\ runs = <<>>
  /\ RouteIdle

\* execute(context) up to the while loop: the fresh executionContext
Init ==
  /\ \E s \in Scenarios :
       /\ wf = s.wf
       /\ user_message = s.user_message
       /\ metadata = s.metadata
       /\ language = s.language
  /\ messageType = ""
  /\ transcribed = FALSE
  /\ currentNode = NodesGet(wf, "start")
  /\ pc = "running"
  /\ iterationCount = 0
  /\ workflowSteps = <<>>
  /\ errors = <<>>
  /\ allResults = <<>>
  /\ lastResult = NoResult
  /\ tokensUsed = 0
  /\ finalResponse = EmptyText
  /\ visitedNodes = {}
  /\ dispatches = 0
  /\ guardTripped = ""
  /\ adapterCalls = 0
  /\ ResolverIdle

\* the context as the handlers read it
Context ==
  [user_message |-> user_message, metadata |-> metadata, language |-> language,
   lastResult |-> lastResult, allResults |-> allResults,
   workflowSteps |-> workflowSteps, messageType |-> messageType,
   transcribed |-> transcribed]

\* while (currentNode && currentNode.type !== 'end')
LoopCondition ==
  currentNode # Undefined /\ wf.nodes[currentNode].type # "end"

\* the visit count taken from the visitedNodes set, which nothing fills
VisitCountFromSet(steps, id) == Cardinality({ v \in visitedNodes : v = id })

\* workflowSteps.filter(s => s.node === currentNode.id).length
VisitCount(steps, id) ==
  Cardinality({ i \in 1 .. Len(steps) : steps[i].node = id })

\* the ceiling check off by one: one more iteration is let through
OverCeilingLate(count) == count > maxIterations + 1

\* iterationCount > maxIterations, on the incremented counter
OverCeiling(count) == count > maxIterations

\* the visit check off by one: a fifth visit is let through
OverVisitedLate(steps, id) == VisitCount(steps, id) > VisitThreshold + 1

\* visitCount > 3
OverVisited(steps, id) == VisitCount(steps, id) > VisitThreshold

\* both guards passed: the node is dispatched in this iteration
Dispatching ==
  /\ pc = "running"
  /\ LoopCondition
  /\ ~OverCeiling(iterationCount + 1)
  /\ ~OverVisited(workflowSteps, currentNode)

\* the entry pushed on workflowSteps
StepTrace(node, result) ==
  [node |-> node.id, nodeName |-> node.name,
   result |-> [hasData |-> result.data.present,
               hasError |-> result.error # EmptyText,
               confidence |-> result.confidence, found |-> result.found,
               tokensUsed |-> result.tokensUsed]]

\* a failure branch that falls back to response_sender when the graph has no
\* agent_escalation node
AfterFailureOrSender(w, visited) ==
  IF "agent_escalation" \notin visited /\ HasNode(w, "agent_escalation")
  THEN "agent_escalation"
  ELSE NodesGet(w, "response_sender")

\* the test on visitedNodes inverted
AfterFailureInverted(w, visited) ==
  IF "agent_escalation" \in visited THEN NodesGet(w, "agent_escalation")
  ELSE NodesGet(w, "response_sender")

\* where a failed dispatch sends the run
\*   visitedNodes.has('agent_escalation') ? response_sender : agent_escalation
AfterFailure(w, visited) ==
  IF "agent_escalation" \notin visited THEN NodesGet(w, "agent_escalation")
  ELSE NodesGet(w, "response_sender")

\* result.data?.finalResponse || result.data?.optimized || result.data?.response
TrackedResponse(result) ==
  Or(Or(result.data.finalResponse, result.data.optimized), result.data.response)

\* the handler's writes to the context
HandlerWrites(o) ==
  /\ user_message' = o.user_message
  /\ messageType' = o.messageType
  /\ transcribed' = o.transcribed

\* the dispatch counts as an adapter call when its handler made one
AdapterUse(o) == adapterCalls' = adapterCalls + (IF o.adapter THEN 1 ELSE 0)

\* the loop ends: currentNode is undefined or the terminal node
Return ==
  /\ pc = "running"
  /\ ~LoopCondition
  /\ pc' = "returned"
  /\ UNCHANGED <<wf, user_message, metadata, language, messageType, transcribed,
                 currentNode, iterationCount, workflowSteps, errors, allResults,
                 lastResult, tokensUsed, finalResponse, visitedNodes, dispatches,
                 guardTripped, adapterCalls, runs, sessions, heap, requests, rnode, rresult, rtarget>>

\* an iteration that finds the counter over the ceiling: record and break
CeilingTrip ==
  /\ pc = "running"
  /\ LoopCondition
  /\ OverCeiling(iterationCount + 1)
  /\ iterationCount' = iterationCount + 1
  /\ errors' = Append(errors, <<"Workflow loop detected after ",
                                ToString(iterationCount + 1), " iterations">>)
  /\ guardTripped' = "ceiling"
  /\ pc' = "returned"
  /\ UNCHANGED <<wf, user_message, metadata, language, messageType, transcribed,
                 currentNode, workflowSteps, allResults, lastResult, tokensUsed,
                 finalResponse, visitedNodes, dispatches,
                 adapterCalls, runs, sessions, heap, requests, rnode, rresult, rtarget>>

\* the repeated-visit branch with `continue` in place of `break`: the loop
\* goes on from response_sender
RepeatTripContinue ==
  /\ pc = "running"
  /\ LoopCondition
  /\ ~OverCeiling(iterationCount + 1)
  /\ OverVisited(workflowSteps, currentNode)
  /\ iterationCount' = iterationCount + 1
  /\ errors' = Append(errors, <<"Infinite loop detected at node ", currentNode>>)
  /\ currentNode' = IF HasNode(wf, "response_sender") THEN "response_sender"
                    ELSE NodesGet(wf, "end")
  /\ guardTripped' = "repeat"
  /\ pc' = "running"
  /\ UNCHANGED <<wf, user_message, metadata, language, messageType, transcribed,
                 workflowSteps, allResults, lastResult, tokensUsed,
                 finalResponse, visitedNodes, dispatches,
                 adapterCalls, runs, sessions, heap, requests, rnode, rresult, rtarget>>

\* an iteration that finds the node visited more than 3 times: record,
\* point currentNode at response_sender (or end) and break
RepeatTrip ==
  /\ pc = "running"
  /\ LoopCondition
  /\ ~OverCeiling(iterationCount + 1)
  /\ OverVisited(workflowSteps, currentNode)
  /\ iterationCount' = iterationCount + 1
  /\ errors' = Append(errors, <<"Infinite loop detected at node ", currentNode>>)
  /\ currentNode' = IF HasNode(wf, "response_sender") THEN "response_sender"
                    ELSE NodesGet(wf, "end")
  /\ guardTripped' = "repeat"
  /\ pc' = "returned"
  /\ UNCHANGED <<wf, user_message, metadata, language, messageType, transcribed,
                 workflowSteps, allResults, lastResult, tokensUsed,
                 finalResponse, visitedNodes, dispatches,
                 adapterCalls, runs, sessions, heap, requests, rnode, rresult, rtarget>>

\* an iteration whose dispatch returns a result without error
DispatchOk ==
  /\ Dispatching
  /\ \E o \in executeNode(wf, wf.nodes[currentNode], Context) :
       /\ ~o.threw
       /\ o.result.error = EmptyText
       /\ HandlerWrites(o)
       /\ AdapterUse(o)
       /\ workflowSteps' = Append(workflowSteps, StepTrace(wf.nodes[currentNode], o.result))
       /\ tokensUsed' = tokensUsed + o.result.tokensUsed
       /\ lastResult' = o.result
       /\ allResults' = Append(allResults, o.result)
       /\ finalResponse' = Or(TrackedResponse(o.result), finalResponse)
       /\ currentNode' = getNextNode(wf, wf.nodes[currentNode], o.result)
  /\ iterationCount' = iterationCount + 1
  /\ dispatches' = dispatches + 1
  /\ UNCHANGED <<wf, metadata, language, pc, errors, visitedNodes, guardTripped,
                 runs, sessions, heap, requests, rnode, rresult, rtarget>>

\* the result.error branch without its `continue`: the failed result is
\* stored like any other before the jump to escalation
DispatchErrorStored ==
  /\ Dispatching
  /\ \E o \in executeNode(wf, wf.nodes[currentNode], Context) :
       /\ ~o.threw
       /\ o.result.error # EmptyText
       /\ HandlerWrites(o)
       /\ AdapterUse(o)
       /\ workflowSteps' = Append(workflowSteps, StepTrace(wf.nodes[currentNode], o.result))
       /\ errors' = Append(errors, <<"Error in node ", currentNode, " (",
                                     wf.nodes[currentNode].name, "): ">>
                                   \o o.result.error)
       /\ tokensUsed' = tokensUsed + o.result.tokensUsed
       /\ lastResult' = o.result
       /\ allResults' = Append(allResults, o.result)
  /\ currentNode' = AfterFailure(wf, visitedNodes)
  /\ iterationCount' = iterationCount + 1
  /\ dispatches' = dispatches + 1
  /\ UNCHANGED <<wf, metadata, language, pc, finalResponse, visitedNodes,
                 guardTripped, runs, sessions, heap, requests, rnode, rresult, rtarget>>

\* the result.error branch without the errors.push
DispatchErrorSilent ==
  /\ Dispatching
  /\ \E o \in executeNode(wf, wf.nodes[currentNode], Context) :
       /\ ~o.threw
       /\ o.result.error # EmptyText
       /\ HandlerWrites(o)
       /\ AdapterUse(o)
       /\ workflowSteps' = Append(workflowSteps, StepTrace(wf.nodes[currentNode], o.result))
  /\ currentNode' = AfterFailure(wf, visitedNodes)
  /\ iterationCount' = iterationCount + 1
  /\ dispatches' = dispatches + 1
  /\ UNCHANGED <<wf, metadata, language, pc, errors, allResults, lastResult,
                 tokensUsed, finalResponse, visitedNodes, guardTripped,
                 runs, sessions, heap, requests, rnode, rresult, rtarget>>

\* an iteration whose dispatch returns a result with error set
DispatchError ==
  /\ Dispatching
  /\ \E o \in executeNode(wf, wf.nodes[currentNode], Context) :
       /\ ~o.threw
       /\ o.result.error # EmptyText
       /\ HandlerWrites(o)
       /\ AdapterUse(o)
       /\ workflowSteps' = Append(workflowSteps, StepTrace(wf.nodes[currentNode], o.result))
       /\ errors' = Append(errors, <<"Error in node ", currentNode, " (",
                                     wf.nodes[currentNode].name, "): ">>
                                   \o o.result.error)
  /\ currentNode' = AfterFailure(wf, visitedNodes)
  /\ iterationCount' = iterationCount + 1
  /\ dispatches' = dispatches + 1
  /\ UNCHANGED <<wf, metadata, language, pc, allResults, lastResult, tokensUsed,
                 finalResponse, visitedNodes, guardTripped,
                 runs, sessions, heap, requests, rnode, rresult, rtarget>>

\* the catch pushing a trace entry for the dispatch that threw
DispatchThrowTraced ==
  /\ Dispatching
  /\ \E o \in executeNode(wf, wf.nodes[currentNode], Context) :
       /\ o.threw
       /\ HandlerWrites(o)
       /\ AdapterUse(o)
       /\ workflowSteps' = Append(workflowSteps,
                                  StepTrace(wf.nodes[currentNode],
                                            [EmptyResult EXCEPT !.error = o.message]))
       /\ errors' = Append(errors, <<"Fatal error in ", currentNode, ": ">>
                                   \o o.message)
  /\ currentNode' = AfterFailure(wf, visitedNodes)
  /\ iterationCount' = iterationCount + 1
  /\ dispatches' = dispatches + 1
  /\ UNCHANGED <<wf, metadata, language, pc, allResults,
                 lastResult, tokensUsed, finalResponse, visitedNodes,
                 guardTripped, runs, sessions, heap, requests, rnode, rresult, rtarget>>

\* the dispatch without the surrounding try/catch: the fault leaves execute
DispatchThrowUncaught ==
  /\ Dispatching
  /\ \E o \in executeNode(wf, wf.nodes[currentNode], Context) :
       /\ o.threw
       /\ HandlerWrites(o)
       /\ AdapterUse(o)
  /\ pc' = "threw"
  /\ iterationCount' = iterationCount + 1
  /\ dispatches' = dispatches + 1
  /\ UNCHANGED <<wf, metadata, language, currentNode, errors, workflowSteps,
                 allResults, lastResult, tokensUsed, finalResponse, visitedNodes,
                 guardTripped, runs, sessions, heap, requests, rnode, rresult, rtarget>>

\* an iteration whose dispatch throws: the catch block
DispatchThrow ==
  /\ Dispatching
  /\ \E o \in executeNode(wf, wf.nodes[currentNode], Context) :
       /\ o.threw
       /\ HandlerWrites(o)
       /\ AdapterUse(o)
       /\ errors' = Append(errors, <<"Fatal error in ", currentNode, ": ">>
                                   \o o.message)
  /\ currentNode' = AfterFailure(wf, visitedNodes)
  /\ iterationCount' = iterationCount + 1
  /\ dispatches' = dispatches + 1
  /\ UNCHANGED <<wf, metadata, language, pc, workflowSteps, allResults,
                 lastResult, tokensUsed, finalResponse, visitedNodes,
                 guardTripped, runs, sessions, heap, requests, rnode, rresult, rtarget>>

Next ==
  \/ Return
  \/ CeilingTrip
  \/ RepeatTrip
  \/ DispatchOk
  \/ DispatchError
  \/ DispatchThrow

Spec == Init /\ [][Next]_vars

\* a run is sequential code: every enabled step is eventually taken
FairSpec == Spec /\ WF_vars(Next)

(***************************************************************************)
(* POST /api/test-chat: extraction of the reply from the returned context  *)
(***************************************************************************)
\* finalResponse || optimized || response || formatted of one data record
ReplyOf(data) ==
  Or(Or(Or(data.finalResponse, data.optimized), data.response), data.formatted)

\* the scan of allResults[1..i] running from the oldest result on
RECURSIVE ScanRepliesForward(_, _)
ScanRepliesForward(results, i) ==
  IF i = 0 THEN EmptyText
  ELSE IF ScanRepliesForward(results, i - 1) # EmptyText
       THEN ScanRepliesForward(results, i - 1)
  ELSE IF results[i].data.present THEN ReplyOf(results[i].data)
  ELSE EmptyText

\* backward scan of allResults[1..i] (priority 2)
RECURSIVE ScanReplies(_, _)
ScanReplies(results, i) ==
  IF i = 0 THEN EmptyText
  ELSE IF results[i].data.present /\ ReplyOf(results[i].data) # EmptyText
       THEN ReplyOf(results[i].data)
  ELSE ScanReplies(results, i - 1)

\* priorities 1 to 4: the text found in the step results, if any
FoundReply(last, results) ==
  Or(Or(last.data.finalResponse, ScanReplies(results, Len(results))),
     Or(Or(last.data.optimized, last.data.response), last.data.formatted))

\* backward scan of allResults[1..i] for the finalResponse field alone
RECURSIVE ScanFinal(_, _)
ScanFinal(results, i) ==
  IF i = 0 THEN EmptyText
  ELSE IF results[i].data.present /\ results[i].data.finalResponse # EmptyText
       THEN results[i].data.finalResponse
  ELSE ScanFinal(results, i - 1)

\* the extraction reading no field but finalResponse
ExtractResponseFinalOnly(last, results, errs) ==
  LET response == Or(last.data.finalResponse, ScanFinal(results, Len(results)))
  IN  IF response # EmptyText THEN response
      ELSE IF Len(errs) > 0
      THEN <<"I encountered an error: ">> \o errs[1]
           \o <<". Please try again or contact support.">>
      ELSE ApologyText

\* the extraction without its last resort (priority 5)
ExtractResponseNoLastResort(last, results, errs) == FoundReply(last, results)

ExtractResponse(last, results, errs) ==
  LET response == FoundReply(last, results)
  IN  IF response # EmptyText THEN response
      ELSE IF Len(errs) > 0
      THEN <<"I encountered an error: ">> \o errs[1]
           \o <<". Please try again or contact support.">>
      ELSE ApologyText

\* the reply the handler sends for the context execute returned
Reply == ExtractResponse(lastResult, allResults, errors)

(***************************************************************************)
(* getNextNode on its own: bounded inputs, one application                 *)
(***************************************************************************)
ResolverWorkflow == Workflow(TargetNodes, StdTemplates)

ResolverConfidences == { NoConf, 0, 69, 70, 71 }

ResolverResults ==
  { [EmptyResult EXCEPT !.next = n, !.confidence = conf, !.found = f]
    : n \in { "", Ghost, "explicit" }, conf \in ResolverConfidences,
      f \in { "true", "false", "undef" } }

ResolveInit ==
  /\ wf = ResolverWorkflow
  /\ user_message = EmptyText
  /\ metadata = NoMetadata
  /\ language = ""
  /\ messageType = ""
  /\ transcribed = FALSE
  /\ currentNode = Undefined
  /\ pc = "resolve"
  /\ iterationCount = 0
  /\ workflowSteps = <<>>
  /\ errors = <<>>
  /\ allResults = <<>>
  /\ lastResult = NoResult
  /\ tokensUsed = 0
  /\ finalResponse = EmptyText
  /\ visitedNodes = {}
  /\ dispatches = 0
  /\ guardTripped = ""
  /\ adapterCalls = 0
  /\ runs = <<>>
  /\ RouteIdle
  /\ rnode \in { Node("probe", "handler", config) : config \in RoutingConfigs }
  /\ rresult \in ResolverResults
  /\ rtarget = ""

Resolve ==
  /\ pc = "resolve"
  /\ rtarget' = getNextNode(wf, rnode, rresult)
  /\ pc' = "resolved"
  /\ UNCHANGED <<wf, user_message, metadata, language, messageType, transcribed,
                 currentNode, iterationCount, workflowSteps, errors, allResults,
                 lastResult, tokensUsed, finalResponse, visitedNodes, dispatches,
                 guardTripped, adapterCalls, runs, sessions, heap, requests, rnode, rresult>>

ResolveNext == Resolve

ResolveSpec == ResolveInit /\ [][ResolveNext]_vars

(***************************************************************************)
(* Properties                                                              *)
(***************************************************************************)
\* C1: every run terminates; the iteration counter grows by exactly one in
\* every loop iteration and by nothing else; at most maxIterations = 100
\* nodes are dispatched in a run.
C1_TerminatesWithinCeiling ==
  /\ [](dispatches <= maxIterations)
  /\ [][IF pc = "running" /\ LoopCondition
        THEN iterationCount' = iterationCount + 1
        ELSE iterationCount' = iterationCount]_vars
  /\ <>(pc = "returned")

\* a run that dispatched 100 nodes and was ended by the ceiling
C1_Witness ==
  pc = "returned" /\ guardTripped = "ceiling" /\ dispatches = maxIterations

\* C2: whatever context execute returns, the reply the handler extracts
\* from it is not empty.
C2_ReplyNonEmpty == pc = "returned" => Reply # EmptyText

\* a returned run in which every dispatched node failed
C2_Witness ==
  pc = "returned" /\ dispatches > 0 /\ allResults = <<>> /\ Len(errors) > 0
  /\ Reply # EmptyText

\* C3: the context execute returns always has a non-empty finalResponse
\* field.
C3_FinalResponseNonEmpty == pc = "returned" => finalResponse # EmptyText

\* the node ids of the step trace, in dispatch order
TraceNodes == [i \in 1 .. Len(workflowSteps) |-> workflowSteps[i].node]

\* the language-understanding adapter failed in this run (a message was there)
NlpAdapterFailed ==
  \E i \in 1 .. Len(workflowSteps) :
    /\ wf.nodes[workflowSteps[i].node].type = "nlp"
    /\ workflowSteps[i].result.hasError
    /\ user_message # EmptyText

\* C4: when the nlp node's adapter fails the run is not diverted: the router
\* is dispatched next, takes its fallback to the clarification handler, and
\* the final response is the clarification text.
C4_NlpFailureContinuesToRouter ==
  (pc = "returned" /\ wf = MainWorkflow /\ metadata = TextMeta /\ NlpAdapterFailed)
  => /\ TraceNodes = <<"start", "message_classifier", "language_detector",
                       "intent_router", "clarification_handler",
                       "response_sender">>
     /\ Reply = ClarificationText

\* the nlp step of the greeting scenario: intent greeting, confidence 0.9
GreetingRun ==
  /\ wf = MainWorkflow
  /\ metadata = TextMeta
  /\ Len(allResults) >= 3
  /\ Len(workflowSteps) >= 3
  /\ workflowSteps[3].node = "language_detector"
  /\ ~workflowSteps[3].result.hasError
  /\ allResults[3].data.intent = "greeting"
  /\ allResults[3].confidence = 90

\* C5: in the greeting scenario the nodes are dispatched in the order start,
\* classifier, nlp, router, greeting handler, action; the final response is
\* the greeting template text and no error is recorded.
C5_GreetingScenario ==
  (pc = "returned" /\ GreetingRun)
  => /\ TraceNodes = <<"start", "message_classifier", "language_detector",
                       "intent_router", "greeting_handler", "response_sender">>
     /\ currentNode = "end"
     /\ Reply = (IF language = "malay" THEN GreetingMalay ELSE GreetingText)
     /\ finalResponse = Reply
     /\ errors = <<>>

\* a finished greeting run
C5_Witness ==
  pc = "returned" /\ GreetingRun /\ language = "" /\ Reply = GreetingText
  /\ Len(workflowSteps) = 6

\* C6: an explicit next of the step result that names an existing node is
\* what getNextNode returns, whatever the config routing fields, the
\* confidence and found are.
C6_ExplicitNextWins ==
  (pc = "resolved" /\ rresult.next # "" /\ HasNode(wf, rresult.next))
  => rtarget = rresult.next

\* explicit next against a config with valid next and next_high_confidence
C6_Witness ==
  /\ pc = "resolved"
  /\ rresult.next = "explicit"
  /\ rresult.confidence = 71
  /\ rnode.config.next = "next"
  /\ rnode.config.next_high_confidence = "next_high_confidence"
  /\ rtarget = "explicit"

\* only next_high_confidence and next_low_confidence are set, both valid,
\* and the step result has no next
OnlyConfidenceRouting ==
  /\ rresult.next = ""
  /\ rnode.config.next = ""
  /\ rnode.config.next_found = ""
  /\ rnode.config.next_not_found = ""
  /\ rnode.config.fallback = ""
  /\ rnode.config.next_high_confidence = "next_high_confidence"
  /\ rnode.config.next_low_confidence = "next_low_confidence"

\* C7: with only the two confidence edges, the high-confidence target is
\* returned exactly when confidence >= 0.7 and the low-confidence target
\* exactly when confidence < 0.7; 0.7 itself goes to the high side.
C7_ConfidenceBoundary ==
  (pc = "resolved" /\ OnlyConfidenceRouting)
  => /\ rtarget = "next_high_confidence"
          <=> (rresult.confidence # NoConf /\ rresult.confidence >= 70)
     /\ rtarget = "next_low_confidence"
          <=> (rresult.confidence # NoConf /\ rresult.confidence < 70)

\* the boundary case: confidence 0.7 resolved to the high-confidence target
C7_Witness ==
  /\ pc = "resolved"
  /\ OnlyConfidenceRouting
  /\ rresult.confidence = 70
  /\ rtarget = "next_high_confidence"

\* a reference with the ids that are not in the graph removed
Existing(w, id) == IF id # "" /\ HasNode(w, id) THEN id ELSE ""

WithoutDangling(w, node) ==
  [node EXCEPT !.config.next = Existing(w, @),
               !.config.next_high_confidence = Existing(w, @),
               !.config.next_low_confidence = Existing(w, @),
               !.config.next_found = Existing(w, @),
               !.config.next_not_found = Existing(w, @),
               !.config.fallback = Existing(w, @)]

\* the start node's only routing field is a next that names a missing node
OnlyDanglingNext ==
  /\ HasNode(wf, "start")
  /\ wf.nodes["start"].type = "trigger"
  /\ wf.nodes["start"].config.next = Ghost
  /\ \A f \in RoutingFields \ {"next"} : wf.nodes["start"].config[f] = ""

\* C8: a routing reference to a missing node is skipped without error: the
\* node chosen after a dispatch is the one chosen when the dangling
\* references are removed, and no error is recorded for it; a node whose
\* only routing field is a dangling next resolves to end and the run returns
\* with no error.
C8_DanglingReferencesSkipped ==
  /\ [][(Dispatching /\ Len(allResults') = Len(allResults) + 1)
        => /\ currentNode' =
                getNextNode(wf, WithoutDangling(wf, wf.nodes[currentNode]),
                            [lastResult' EXCEPT !.next = Existing(wf, @)])
           /\ errors' = errors]_vars
  /\ []((pc = "returned" /\ OnlyDanglingNext)
        => (currentNode = "end" /\ errors = <<>> /\ dispatches = 1))

\* the misconfigured run: start dispatched, resolved to end, returned
C8_Witness ==
  pc = "returned" /\ OnlyDanglingNext /\ currentNode = "end"
  /\ dispatches = 1 /\ errors = <<>>

\* C9: the length of allResults is the number of node dispatches executed
\* so far, dispatches with an error result included.
C9_AllResultsCountsDispatches == Len(allResults) = dispatches

\* the sum of the tokensUsed of the first i step results produced
RECURSIVE StepTokens(_, _)
StepTokens(steps, i) ==
  IF i = 0 THEN 0 ELSE steps[i].result.tokensUsed + StepTokens(steps, i - 1)

\* C10: the context's tokensUsed is the sum of the tokensUsed of every step
\* result produced so far in the run, results with an error included.
C10_TokensAreSumOfSteps ==
  tokensUsed = StepTokens(workflowSteps, Len(workflowSteps))

\* tokens were consumed and a step result with an error was produced
C10_Witness ==
  /\ tokensUsed > 0
  /\ \E i \in 1 .. Len(workflowSteps) : workflowSteps[i].result.hasError
  /\ tokensUsed = StepTokens(workflowSteps, Len(workflowSteps))

\* the run is on a graph with a cycle between the two nodes a and b that no
\* edge leaves
InCycle(a, b) ==
  \/ wf = CycleWorkflow /\ a = "ping" /\ b = "pong"
  \/ wf = EscalationLoopWorkflow /\ a = "image_analyzer" /\ b = "agent_escalation"
  \/ wf = ThrowCycleWorkflow /\ a = "broken_classifier" /\ b = "agent_escalation"

\* the number of trace entries of the two nodes
TracedDispatches(a, b) ==
  VisitCount(workflowSteps, a) + VisitCount(workflowSteps, b)

\* C11 as stated: a run in a cycle between two nodes is ended by the
\* repeated-visit guard after at most 3 x 2 = 6 dispatches of the cycle's nodes.
C11_CycleEndsWithinSix ==
  \A a, b \in DOMAIN wf.nodes : InCycle(a, b) => TracedDispatches(a, b) <= 6

\* C11 amended: a node is dispatched while it has at most 3 trace entries, so
\* each node of the cycle is traced up to 4 times: the run is ended by the
\* repeated-visit guard after at most 4 x 2 = 8 traced dispatches of the
\* cycle's nodes.
C11_CycleEndsWithinEight ==
  \A a, b \in DOMAIN wf.nodes :
    InCycle(a, b)
    => /\ TracedDispatches(a, b) <= 8
       /\ pc = "returned" => guardTripped = "repeat"

\* the two-node cycle after its eighth dispatch, ended by the guard
C11_Witness ==
  /\ wf = CycleWorkflow
  /\ pc = "returned"
  /\ guardTripped = "repeat"
  /\ TracedDispatches("ping", "pong") = 8

\* this step is a failed dispatch: an error result or a thrown fault
FailedDispatch ==
  /\ Dispatching
  /\ dispatches' = dispatches + 1
  /\ Len(errors') = Len(errors) + 1

\* C12: error handling sends the run to agent_escalation at most once: once a
\* failed dispatch has been sent there, every later failed dispatch is sent to
\* response_sender.
C12_EscalatesAtMostOnce ==
  [][ (FailedDispatch /\ Len(errors) >= 1 /\ HasNode(wf, "agent_escalation"))
      => currentNode' = NodesGet(wf, "response_sender") ]_vars

\* C13: the list of recorded step results is always at least as long as the
\* trace of dispatched nodes.
C13_ResultsCoverTrace == Len(allResults) >= Len(workflowSteps)

\* the message a guard pushes when it trips
TripMessages == { "Infinite loop detected at node ", "Workflow loop detected after " }

\* C14: when a loop guard trips exactly one error is recorded for the trip, no
\* node is dispatched from then on, and execute returns normally.
C14_GuardTripEndsRun ==
  /\ [](guardTripped # "" => pc = "returned")
  /\ [][ /\ (guardTripped = "" /\ guardTripped' # "")
            => /\ Len(errors') = Len(errors) + 1
               /\ errors'[Len(errors')][1] \in TripMessages
               /\ dispatches' = dispatches
               /\ workflowSteps' = workflowSteps
               /\ pc' = "returned"
         /\ guardTripped # ""
            => /\ dispatches' = dispatches
               /\ workflowSteps' = workflowSteps
               /\ errors' = errors ]_vars

\* the repeated-visit guard has tripped and the run has returned
C14_Witness ==
  /\ guardTripped = "repeat"
  /\ pc = "returned"
  /\ currentNode = "response_sender"
  /\ errors[Len(errors)][1] = "Infinite loop detected at node "

\* a dispatch of the run threw
Faulted == \E i \in 1 .. Len(errors) : errors[i][1] = "Fatal error in "

\* C15: no fault thrown inside a node dispatch leaves execute: the run goes on
\* and execute returns its context.
C15_NoExceptionEscapes ==
  /\ [](pc \in { "running", "returned" })
  /\ Faulted ~> (pc = "returned")

\* a run that returned after a dispatch threw
C15_Witness ==
  /\ pc = "returned"
  /\ Faulted
  /\ guardTripped = "repeat"

\* the error entry of a dispatch that threw an adapter's failure
AdapterFaultAt(i) ==
  /\ errors[i][1] = "Fatal error in "
  /\ SubSeq(errors[i], 4, Len(errors[i])) = AdapterErrorText

\* C16: a failing adapter never makes a node dispatch throw: the handler turns
\* the failure into an error result, so no adapter failure reaches the catch
\* block of execute.
C16_AdapterFailuresAreResults ==
  \A i \in 1 .. Len(errors) : ~AdapterFaultAt(i)

\* the trace entries of a handler that degraded after an adapter failure: an
\* error result, or the ranker's fallback (confidence 0.5 is only set there)
DegradedAt(i) ==
  \/ workflowSteps[i].result.hasError
  \/ /\ workflowSteps[i].node \in { "bike_ranker", "product_ranker" }
     /\ workflowSteps[i].result.confidence = 50

\* C17: whenever an adapter call failed and the handler degraded, the errors
\* list of the returned context is non-empty.
C17_DegradationIsReported ==
  (pc = "returned" /\ \E i \in 1 .. Len(workflowSteps) : DegradedAt(i))
  => Len(errors) > 0

\* this step dispatches a node of the given type and records its result
Dispatched(type) ==
  /\ Dispatching
  /\ wf.nodes[currentNode].type = type
  /\ Len(allResults') = Len(allResults) + 1

\* C18: whatever the configuration of the escalation node, the result of the
\* escalation handler has next = response_sender, and the node dispatched
\* after escalation is response_sender whenever that node exists.
C18_EscalationRoutesToSender ==
  [][ Dispatched("escalation")
      => /\ lastResult'.next = "response_sender"
         /\ HasNode(wf, "response_sender") => currentNode' = "response_sender"
    ]_vars

\* the text the action handler is to choose in the current context
ChosenResponse ==
  LET last == IF lastResult.data.present THEN ResponseOf(lastResult.data)
              ELSE EmptyText
      prior == ScanResults(allResults, Len(allResults))
      intent == IF lastResult.data.intent # "" THEN lastResult.data.intent
                ELSE "greeting"
      lang == LanguageOf(Context)
      template == TemplateLookup(wf, ActionTemplateKey(intent), lang)
      greeting == TemplateLookup(wf, "greeting", lang)
  IN  IF last # EmptyText THEN last
      ELSE IF prior # EmptyText THEN prior
      ELSE IF template # EmptyText THEN template
      ELSE IF greeting # EmptyText THEN greeting
      ELSE ApologyText

\* C19: in every context the result of the action handler has a non-empty
\* data.finalResponse: the text of the last result, else of the most recent
\* earlier result that has one, else the template of the intent and language
\* (the lookup falls back to the greeting template), else the apology literal.
C19_ActionAlwaysAnswers ==
  [][ Dispatched("action")
      => /\ lastResult'.data.finalResponse # EmptyText
         /\ lastResult'.data.finalResponse = ChosenResponse ]_vars

\* the action handler has answered with the apology literal
C19_Witness ==
  /\ Len(workflowSteps) > 0
  /\ wf.nodes[workflowSteps[Len(workflowSteps)].node].type = "action"
  /\ lastResult.data.finalResponse = ApologyText

\* the list with p put before the first less popular element
RECURSIVE InsertByPopularity(_, _)
InsertByPopularity(p, list) ==
  IF list = <<>> THEN <<p>>
  ELSE IF Popularity(p) >= Popularity(Head(list)) THEN <<p>> \o list
  ELSE <<Head(list)>> \o InsertByPopularity(p, Tail(list))

\* the list ordered by descending popularity
RECURSIVE OrderByPopularity(_)
OrderByPopularity(list) ==
  IF list = <<>> THEN <<>>
  ELSE InsertByPopularity(Head(list), OrderByPopularity(Tail(list)))

Rankers == { "bike_ranker", "product_ranker" }

\* this step is a ranker dispatch over a non-empty candidate set whose
\* ranking adapter call failed (a successful call reports its token usage)
RankerFallback ==
  /\ Dispatched("ml")
  /\ currentNode \in Rankers
  /\ Len(lastResult.data.products) > 0
  /\ lastResult'.tokensUsed = 0

\* the trace shows a ranker fallback
FellBack ==
  \E i \in 1 .. Len(workflowSteps) :
    /\ workflowSteps[i].node \in Rankers
    /\ workflowSteps[i].result.confidence = 50

MlOnEmpty ==
  /\ Dispatching
  /\ wf.nodes[currentNode].type = "ml"
  /\ Len(lastResult.data.products) = 0
  /\ dispatches' = dispatches + 1

\* the dispatch returned confidence 0 and no products without an adapter call
EmptyRanking ==
  /\ adapterCalls' = adapterCalls
  /\ Len(allResults') = Len(allResults) + 1
  /\ lastResult'.confidence = 0
  /\ lastResult'.data.products = <<>>
  /\ lastResult'.tokensUsed = 0

\* C21 as stated: every ml node dispatched on an empty candidate set makes no
\* adapter call and returns confidence 0 with an empty products list.
C21_EmptyCandidatesEveryMl == [][ MlOnEmpty => EmptyRanking ]_vars

\* C21 amended: the same for every ml node other than product_recommender,
\* which does not read the candidates and always runs its own search.
C21_EmptyCandidatesNoCall ==
  [][ (MlOnEmpty /\ currentNode # "product_recommender") => EmptyRanking ]_vars

\* a ranker dispatched on an empty candidate set has returned
C21_Witness ==
  /\ wf \in MlWorkflows
  /\ Len(workflowSteps) = 2
  /\ workflowSteps[2].node \in Rankers
  /\ lastResult.confidence = 0
  /\ adapterCalls = 0
  /\ currentNode = "clarification_handler"

\* the largest element of a non-empty set of numbers
Latest(indices) == CHOOSE i \in indices : \A j \in indices : j <= i

\* the message built from the first recorded error, or the apology literal
NothingFound ==
  IF Len(errors) > 0
  THEN <<"I encountered an error: ">> \o errors[1]
       \o <<". Please try again or contact support.">>
  ELSE ApologyText

\* the step results that carry a finalResponse
WithFinalResponse ==
  { i \in 1 .. Len(allResults) : allResults[i].data.finalResponse # EmptyText }

\* the step results that carry any response text
WithResponseText ==
  { i \in 1 .. Len(allResults) :
      allResults[i].data.present /\ ReplyOf(allResults[i].data) # EmptyText }

\* C22 as stated: the reply is the finalResponse of the last step result,
\* else the finalResponse of the most recent earlier step result that has
\* one, else (no step result has it) the message built from the first error
\* or, with no error, the apology literal.
C22_ReplyFromFinalResponse ==
  pc = "returned"
  => Reply = IF lastResult.data.finalResponse # EmptyText
             THEN lastResult.data.finalResponse
             ELSE IF WithFinalResponse # {}
             THEN allResults[Latest(WithFinalResponse)].data.finalResponse
             ELSE NothingFound

\* C22 amended: the reply is the finalResponse of the last step result, else
\* the first non-empty of finalResponse, optimized, response, formatted of the
\* most recent step result (the last one included) that has any of them, else
\* the message built from the first error or, with no error, the apology.
C22_ReplyFromResponseFields ==
  pc = "returned"
  => Reply = IF lastResult.data.finalResponse # EmptyText
             THEN lastResult.data.finalResponse
             ELSE IF WithResponseText # {}
             THEN ReplyOf(allResults[Latest(WithResponseText)].data)
             ELSE NothingFound

\* a finished run whose last step result has text but no finalResponse,
\* behind an earlier step result that has one
C22_Witness ==
  /\ pc = "returned"
  /\ lastResult.data.finalResponse = EmptyText
  /\ WithFinalResponse # {}
  /\ Reply = lastResult.data.formatted
  /\ Reply # allResults[Latest(WithFinalResponse)].data.finalResponse

(***************************************************************************)
(* Concurrent execute calls on one WorkflowEngine instance.  Each call     *)
(* builds its own executionContext; the engine's fields (workflow, nodes)  *)
(* are only read.  A step is one loop iteration of one call.               *)
(***************************************************************************)
\* the executionContext execute builds from the caller's context
NewRun(w, input) ==
  [user_message |-> input.user_message, metadata |-> input.metadata,
   language |-> input.language, messageType |-> "", transcribed |-> FALSE,
   currentNode |-> NodesGet(w, "start"), pc |-> "running",
   iterationCount |-> 0, workflowSteps |-> <<>>, errors |-> <<>>,
   allResults |-> <<>>, lastResult |-> NoResult, tokensUsed |-> 0,
   finalResponse |-> EmptyText]

\* the context of a call as the handlers read it
RunContext(r) ==
  [user_message |-> r.user_message, metadata |-> r.metadata,
   language |-> r.language, lastResult |-> r.lastResult,
   allResults |-> r.allResults, workflowSteps |-> r.workflowSteps,
   messageType |-> r.messageType, transcribed |-> r.transcribed]

\* the bookkeeping of one dispatch outcome in the call's own context
Record(w, r, o) ==
  LET node == w.nodes[r.currentNode]
      written == [r EXCEPT !.user_message = o.user_message,
                           !.messageType = o.messageType,
                           !.transcribed = o.transcribed,
                           !.iterationCount = @ + 1]
  IN  IF o.threw
      THEN [written EXCEPT
              !.errors = Append(@, <<"Fatal error in ", r.currentNode, ": ">>
                                   \o o.message),
              !.currentNode = AfterFailure(w, {})]
      ELSE IF o.result.error # EmptyText
      THEN [written EXCEPT
              !.workflowSteps = Append(@, StepTrace(node, o.result)),
              !.errors = Append(@, <<"Error in node ", r.currentNode, " (",
                                     node.name, "): ">> \o o.result.error),
              !.currentNode = AfterFailure(w, {})]
      ELSE [written EXCEPT
              !.workflowSteps = Append(@, StepTrace(node, o.result)),
              !.tokensUsed = @ + o.result.tokensUsed,
              !.lastResult = o.result,
              !.allResults = Append(@, o.result),
              !.finalResponse = Or(TrackedResponse(o.result), @),
              !.currentNode = getNextNode(w, node, o.result)]

\* one iteration of the while loop of a call: the contexts it may lead to
RunStep(w, r) ==
  IF r.pc # "running" THEN {}
  ELSE IF r.currentNode = Undefined \/ w.nodes[r.currentNode].type = "end"
  THEN { [r EXCEPT !.pc = "returned"] }
  ELSE IF OverCeiling(r.iterationCount + 1)
  THEN { [r EXCEPT !.iterationCount = @ + 1,
                   !.errors = Append(@, <<"Workflow loop detected after ",
                                          ToString(r.iterationCount + 1),
                                          " iterations">>),
                   !.pc = "returned"] }
  ELSE IF OverVisited(r.workflowSteps, r.currentNode)
  THEN { [r EXCEPT !.iterationCount = @ + 1,
                   !.errors = Append(@, <<"Infinite loop detected at node ",
                                          r.currentNode>>),
                   !.currentNode = IF HasNode(w, "response_sender")
                                   THEN "response_sender" ELSE NodesGet(w, "end"),
                   !.pc = "returned"] }
  ELSE { Record(w, r, o) : o \in executeNode(w, w.nodes[r.currentNode], RunContext(r)) }

\* the single run of Spec as a context record
ThisRun ==
  [user_message |-> user_message, metadata |-> metadata, language |-> language,
   messageType |-> messageType, transcribed |-> transcribed,
   currentNode |-> currentNode, pc |-> pc, iterationCount |-> iterationCount,
   workflowSteps |-> workflowSteps, errors |-> errors, allResults |-> allResults,
   lastResult |-> lastResult, tokensUsed |-> tokensUsed,
   finalResponse |-> finalResponse]

\* the steps of Spec are the iterations RunStep describes
RunStepAgrees == [][ThisRun' \in RunStep(wf, ThisRun)]_vars

Calls == 1 .. 2

\* the requests served concurrently: a text message, and voice messages with
\* and without an audio URL
PairInputs ==
  { Input(MainWorkflow, TextMessage, TextMeta, ""),
    Input(MainWorkflow, TextMessage,
          [NoMetadata EXCEPT !.message_type = "voice", !.voice_url = "audio-url"], ""),
    Input(MainWorkflow, EmptyText,
          [NoMetadata EXCEPT !.message_type = "voice"], "malay") }

PairInit ==
  /\ wf = MainWorkflow
  /\ \E a, b \in PairInputs : runs = <<NewRun(wf, a), NewRun(wf, b)>>
  /\ user_message = EmptyText
  /\ metadata = NoMetadata
  /\ language = ""
  /\ messageType = ""
  /\ transcribed = FALSE
  /\ currentNode = Undefined
  /\ pc = "pair"
  /\ iterationCount = 0
  /\ workflowSteps = <<>>
  /\ errors = <<>>
  /\ allResults = <<>>
  /\ lastResult = NoResult
  /\ tokensUsed = 0
  /\ finalResponse = EmptyText
  /\ visitedNodes = {}
  /\ dispatches = 0
  /\ guardTripped = ""
  /\ adapterCalls = 0
  /\ rnode = NoNode /\ rresult = NoResult /\ rtarget = ""
  /\ RouteIdle

\* a call that keeps its last result on the engine (this.lastResult): the
\* iteration reads what whichever call wrote last
PairStepShared(r) ==
  /\ pc = "pair"
  /\ \E q \in Calls :
       \E s \in RunStep(wf, [runs[r] EXCEPT !.lastResult = runs[q].lastResult]) :
         runs' = [runs EXCEPT ![r] = s]
  /\ UNCHANGED <<wf, user_message, metadata, language, messageType, transcribed,
                 currentNode, pc, iterationCount, workflowSteps, errors,
                 allResults, lastResult, tokensUsed, finalResponse, visitedNodes,
                 dispatches, guardTripped, adapterCalls, sessions, heap, requests,
                 rnode, rresult, rtarget>>

\* call r runs one iteration on its own context; the engine is not written
PairStep(r) ==
  /\ pc = "pair"
  /\ \E s \in RunStep(wf, runs[r]) : runs' = [runs EXCEPT ![r] = s]
  /\ UNCHANGED <<wf, user_message, metadata, language, messageType, transcribed,
                 currentNode, pc, iterationCount, workflowSteps, errors,
                 allResults, lastResult, tokensUsed, finalResponse, visitedNodes,
                 dispatches, guardTripped, adapterCalls, sessions, heap, requests,
                 rnode, rresult, rtarget>>

PairNext == \E r \in Calls : PairStep(r)

PairSpec == PairInit /\ [][PairNext]_vars

LogStep ==
  /\ Dispatched("database")
  /\ wf.nodes[currentNode].config.operation = "log"

\* C24: the log step preserves the final response: the text the extractor
\* returns from the context with the log step recorded is the text it
\* returns from the context just before it.
C24_LogPreservesReply == [][ LogStep => Reply' = Reply ]_vars

\* the log step was recorded behind the formatter and the reply is still the
\* formatter's text, not the older text of the handler
C24_Witness ==
  /\ Len(allResults) = 4
  /\ lastResult.data.logged
  /\ allResults[3].data.formatted = RecommendationText
  /\ allResults[2].data.finalResponse = GreetingText
  /\ Reply = RecommendationText

\* the kinds executeNode has a case for
KnownKinds ==
  { "trigger", "classifier", "nlp", "router", "database", "ml", "formatter",
    "optimizer", "handler", "escalation", "action", "vision", "speech" }

\* this step dispatches a node of an unknown kind
UnknownKindStep ==
  /\ Dispatching
  /\ wf.nodes[currentNode].type \notin KnownKinds
  /\ dispatches' = dispatches + 1

\* C25: dispatching a node of an unknown kind does not fail: its step result
\* has the data of the current lastResult and tokensUsed 0, it is recorded
\* like any other (trace, allResults, lastResult; no error), and the run goes
\* on with the node getNextNode selects.
C25_UnknownKindIsNoOp ==
  [][ UnknownKindStep
      => /\ errors' = errors
         /\ Len(allResults') = Len(allResults) + 1
         /\ allResults'[Len(allResults')] = lastResult'
         /\ lastResult'.data = lastResult.data
         /\ lastResult'.tokensUsed = 0
         /\ tokensUsed' = tokensUsed
         /\ Len(workflowSteps') = Len(workflowSteps) + 1
         /\ workflowSteps'[Len(workflowSteps')].node = currentNode
         /\ currentNode' = getNextNode(wf, wf.nodes[currentNode], lastResult')
         /\ adapterCalls' = adapterCalls ]_vars

\* a node of an unknown kind was dispatched behind the handler: its result
\* carries the handler's data and the run went on to response_sender
C25_Witness ==
  /\ Len(workflowSteps) = 3
  /\ workflowSteps[3].node = "webhook_notifier"
  /\ lastResult.data.response = GreetingText
  /\ lastResult.data = allResults[2].data
  /\ currentNode = "response_sender"
  /\ errors = <<>>

\* C26: getNextNode takes the next_not_found edge only when the step
\* result's found is exactly false; a result without a found field never
\* takes it.
C26_NotFoundOnlyWhenFalse ==
  (pc = "resolved" /\ rtarget = "next_not_found") => rresult.found = "false"

\* the routing fields in the order getNextNode tries them
RoutingOrder ==
  << "next", "next_high_confidence", "next_low_confidence", "next_found",
     "next_not_found", "fallback" >>

\* the edge applies to the step result: the confidence edges by the
\* threshold, the found edges by found, next and fallback always
Applies(field, result) ==
  CASE field = "next_high_confidence"
         -> result.confidence # NoConf /\ result.confidence >= ConfidenceThreshold
    [] field = "next_low_confidence"
         -> result.confidence # NoConf /\ result.confidence < ConfidenceThreshold
    [] field = "next_found" -> result.found = "true"
    [] field = "next_not_found" -> result.found = "false"
    [] OTHER -> TRUE

\* the positions of the order whose reference names an existing node and
\* whose edge applies
Hits(w, node, result) ==
  { i \in 1 .. Len(RoutingOrder) :
      /\ HasNode(w, node.config[RoutingOrder[i]])
      /\ Applies(RoutingOrder[i], result) }

\* the step result carries no next that names a node of the graph
NoExplicitNext == ~HasNode(wf, rresult.next)

TraceEntries(id) ==
  Cardinality({ i \in 1 .. Len(workflowSteps) : workflowSteps[i].node = id })

\* C28: no node id occurs more than 4 times in the step trace, and a node is
\* dispatched only while it has at most 3 earlier trace entries.
C28_AtMostFourTraceEntries ==
  /\ [](\A id \in DOMAIN wf.nodes : TraceEntries(id) <= VisitThreshold + 1)
  /\ [][ dispatches' = dispatches + 1
         => TraceEntries(currentNode) <= VisitThreshold ]_vars

\* a node of the cycle has its fourth trace entry
C28_Witness ==
  /\ wf = CycleWorkflow
  /\ pc = "running"
  /\ currentNode = "pong"
  /\ TraceEntries("ping") = 4
  /\ TraceEntries("pong") = 3

\* a step that dispatches a database node and gets a result with error set
DatabaseFaultStep ==
  /\ pc = "running"
  /\ dispatches' = dispatches + 1
  /\ wf.nodes[currentNode].type = "database"
  /\ Len(workflowSteps') = Len(workflowSteps) + 1
  /\ workflowSteps'[Len(workflowSteps')].result.hasError

\* C29: a data-store exception inside a database node yields found = false,
\* tokensUsed = 0 and error set, and the run continues with the node the
\* resolver selects for that result from the node's routing config.
C29_DatabaseFaultRoutedByResolver ==
  [][ DatabaseFaultStep
      => /\ workflowSteps'[Len(workflowSteps')].result.found = "false"
         /\ workflowSteps'[Len(workflowSteps')].result.tokensUsed = 0
         /\ currentNode' = getNextNode(wf, wf.nodes[currentNode],
                                       DatabaseFailed(AdapterErrorText)) ]_vars

\* the handler half alone: the failed result is found = false, no tokens
C29_DatabaseFaultResult ==
  [][ DatabaseFaultStep
      => /\ workflowSteps'[Len(workflowSteps')].result.found = "false"
         /\ workflowSteps'[Len(workflowSteps')].result.tokensUsed = 0 ]_vars

\* a step that dispatches a node of the given type
DispatchOf(type) ==
  /\ pc = "running"
  /\ dispatches' = dispatches + 1
  /\ wf.nodes[currentNode].type = type

\* the speech dispatch returned a transcription (its result was kept)
SpeechSucceeded ==
  /\ DispatchOf("speech")
  /\ Len(allResults') = Len(allResults) + 1

\* the speech dispatch returned an error result
SpeechFailed ==
  /\ DispatchOf("speech")
  /\ Len(allResults') = Len(allResults)

\* metadata.voice_url || metadata.audio_url is empty
MissingAudioUrl == metadata.voice_url = "" /\ metadata.audio_url = ""

\* const message = context.user_message || context.lastResult?.data?.message
NlpInput == Or(user_message, lastResult.data.message)

\* C30: a successful speech dispatch makes the transcribed text the run's
\* message, nothing else changes the message, and an nlp node dispatched after
\* it reads that message; a failed speech dispatch leaves the message as it
\* was, and with a missing audio URL no transcription call is made.
C30_NlpReadsTranscription ==
  [][ /\ SpeechSucceeded
         => /\ user_message' = lastResult'.data.text
            /\ transcribed'
            /\ ~MissingAudioUrl
      /\ SpeechFailed
         => /\ user_message' = user_message
            /\ transcribed' = transcribed
      /\ (DispatchOf("speech") /\ MissingAudioUrl)
         => /\ SpeechFailed
            /\ adapterCalls' = adapterCalls
      /\ ~DispatchOf("speech") => user_message' = user_message
      /\ (DispatchOf("nlp") /\ transcribed) => NlpInput = user_message ]_vars

\* the nlp node has processed the transcription of a voice message
C30_Witness ==
  /\ wf = MainWorkflow
  /\ metadata.message_type = "voice"
  /\ transcribed
  /\ user_message = TranscribedText
  /\ Len(workflowSteps) >= 4
  /\ workflowSteps[3].node = "voice_transcriber"
  /\ workflowSteps[4].node = "language_detector"
  /\ ~workflowSteps[4].result.hasError
  /\ adapterCalls = 2

\* a voice message without audio URL: the speech node failed, no adapter call
C30_WitnessMissingUrl ==
  /\ wf = MainWorkflow
  /\ metadata.message_type = "voice"
  /\ MissingAudioUrl
  /\ user_message = TextMessage
  /\ Len(workflowSteps) >= 3
  /\ workflowSteps[3].node = "voice_transcriber"
  /\ workflowSteps[3].result.hasError
  /\ adapterCalls = 0
  /\ ~transcribed

(***************************************************************************)
(* handleOptimizer alone: every formatted text, every max_tokens           *)
(***************************************************************************)
MaxTextLen == 9

\* the characters of the formatted texts: a letter and the newline
TextChars == { "a", "\n" }

FormattedTexts == UNION { [1 .. n -> TextChars] : n \in 0 .. MaxTextLen }

\* node.config.max_tokens; 0 stands for a config without the member
MaxTokensConfigs == 0 .. 2

OptimizeInit ==
  /\ wf = ResolverWorkflow
  /\ user_message = EmptyText
  /\ metadata = NoMetadata
  /\ language = ""
  /\ messageType = ""
  /\ transcribed = FALSE
  /\ currentNode = Undefined
  /\ pc = "optimize"
  /\ iterationCount = 0
  /\ workflowSteps = <<>>
  /\ errors = <<>>
  /\ allResults = <<>>
  /\ \E text \in FormattedTexts :
       lastResult = [EmptyResult EXCEPT !.data.formatted = text]
  /\ tokensUsed = 0
  /\ finalResponse = EmptyText
  /\ visitedNodes = {}
  /\ dispatches = 0
  /\ guardTripped = ""
  /\ adapterCalls = 0
  /\ runs = <<>>
  /\ RouteIdle
  /\ rnode \in { Node("response_optimizer", "optimizer",
                      [DefaultConfig EXCEPT !.max_tokens = n])
                 : n \in MaxTokensConfigs }
  /\ rresult = NoResult
  /\ rtarget = ""

Optimize ==
  /\ pc = "optimize"
  /\ \E o \in handleOptimizer(wf, rnode, Context) : rresult' = o.result
  /\ pc' = "optimized"
  /\ UNCHANGED <<wf, user_message, metadata, language, messageType, transcribed,
                 currentNode, iterationCount, workflowSteps, errors, allResults,
                 lastResult, tokensUsed, finalResponse, visitedNodes, dispatches,
                 guardTripped, adapterCalls, runs, sessions, heap, requests, rnode, rtarget>>

OptimizeNext == Optimize

OptimizeSpec == OptimizeInit /\ [][OptimizeNext]_vars

\* Math.ceil(text.length / 4)
EstimatedTokens(text) == (Len(text) + CharsPerToken - 1) \div CharsPerToken

\* node.config.max_tokens || 500
MaxTokensOf(node) ==
  IF node.config.max_tokens # 0 THEN node.config.max_tokens ELSE DefaultMaxTokens

\* C31: the estimated token count ceil(length / 4) of the optimized text is at
\* most max_tokens, for every input text and every max_tokens.
C31_OptimizedWithinBudget ==
  pc = "optimized"
  => EstimatedTokens(rresult.data.optimized) <= MaxTokensOf(rnode)

\* what the code keeps: the budget plus the three characters of the ellipsis
C31_OptimizedWithinBudgetAndEllipsis ==
  pc = "optimized"
  => Len(rresult.data.optimized) <= MaxTokensOf(rnode) * CharsPerToken + 3

\* the trace entries whose result carried an error
ErrorEntries == { i \in 1 .. Len(workflowSteps) : workflowSteps[i].result.hasError }

\* the dispatches that threw: they left no trace entry
ThrownDispatches == dispatches - Len(workflowSteps)

\* the failures of the run so far: error results, thrown faults, guard trips
Failures ==
  Cardinality(ErrorEntries) + ThrownDispatches
  + (IF guardTripped # "" THEN 1 ELSE 0)

\* a step that dispatches a node and keeps no result, or trips a guard
FailureStep ==
  \/ dispatches' = dispatches + 1 /\ Len(allResults') = Len(allResults)
  \/ guardTripped' # guardTripped

\* C32: the errors list grows by exactly one entry for each dispatch that
\* returns an error result, each dispatch that throws and each guard trip, and
\* by nothing else; it is empty at the end of a run exactly when none of these
\* occurred, and a run whose only failure is the nlp node's ends with exactly
\* one entry, naming the nlp node's id.
C32_OneErrorPerFailure ==
  /\ [][ /\ SubSeq(errors', 1, Len(errors)) = errors
         /\ Len(errors') = Len(errors) + (IF FailureStep THEN 1 ELSE 0) ]_vars
  /\ [](Len(errors) = Failures)
  /\ [](pc = "returned" => (errors = <<>> <=> Failures = 0))
  /\ [](\A i \in ErrorEntries :
          (pc = "returned" /\ Failures = 1
           /\ wf.nodes[workflowSteps[i].node].type = "nlp")
          => /\ Len(errors) = 1
             /\ errors[1][2] = workflowSteps[i].node)

\* a finished run whose only failure was the nlp adapter: one error entry
C32_Witness ==
  /\ pc = "returned"
  /\ wf = MainWorkflow
  /\ NlpAdapterFailed
  /\ Failures = 1
  /\ Len(errors) = 1
  /\ errors[1][2] = "language_detector"

\* a step whose dispatch pushed a trace entry with hasError set
ErrorResultStep ==
  /\ pc = "running"
  /\ dispatches' = dispatches + 1
  /\ Len(workflowSteps') = Len(workflowSteps) + 1
  /\ workflowSteps'[Len(workflowSteps')].result.hasError

\* C33: a dispatch whose result carries an error adds one trace entry and one
\* error and moves the current node; lastResult, allResults, tokensUsed, the
\* tracked finalResponse and the rest of the context stay as they were, so
\* lastResult is always the result of the last step that did not fail.
C33_ErrorResultFrame ==
  /\ [][ ErrorResultStep
         => /\ SubSeq(workflowSteps', 1, Len(workflowSteps)) = workflowSteps
            /\ SubSeq(errors', 1, Len(errors)) = errors
            /\ Len(errors') = Len(errors) + 1
            /\ lastResult' = lastResult
            /\ allResults' = allResults
            /\ tokensUsed' = tokensUsed
            /\ finalResponse' = finalResponse
            /\ UNCHANGED <<wf, user_message, metadata, language, messageType,
                           transcribed, visitedNodes, pc>> ]_vars
  /\ [](lastResult = IF allResults = <<>> THEN NoResult
                     ELSE allResults[Len(allResults)])

\* a node was dispatched after a failed one and read the earlier lastResult:
\* the escalation after the failed nlp step, lastResult still the classifier's
C33_Witness ==
  /\ wf = MainWorkflow
  /\ metadata = TextMeta
  /\ Len(workflowSteps) = 4
  /\ workflowSteps[3].node = "language_detector"
  /\ workflowSteps[3].result.hasError
  /\ workflowSteps[4].node = "agent_escalation"
  /\ Len(allResults) = 3
  /\ allResults[2].data.messageType = "text"
  /\ Len(errors) = 1

ThrowStep ==
  /\ pc = "running"
  /\ dispatches' = dispatches + 1
  /\ Len(errors') = Len(errors) + 1
  /\ errors'[Len(errors')][1] = "Fatal error in "

\* handleEscalation throws on every dispatch in this graph: it reads a member
\* of the missing templates, or of the node's missing config
EscalationAlwaysThrows ==
  /\ HasNode(wf, "agent_escalation")
  /\ wf.nodes["agent_escalation"].type = "escalation"
  /\ ~wf.templates.defined \/ ~wf.nodes["agent_escalation"].config.defined

\* a dispatch of agent_escalation has thrown in this run
EscalationThrew ==
  \E i \in 1 .. Len(errors) :
    errors[i][1] = "Fatal error in " /\ errors[i][2] = "agent_escalation"

RepeatTripStep == guardTripped = "" /\ guardTripped' = "repeat"

\* C36: when the repeated-visit guard trips, the response_sender node it
\* selects is never dispatched: the loop is left at once, the trace still ends
\* with the node dispatched before the trip, and lastResult and allResults are
\* as they were before the trip.
C36_TripTargetNotDispatched ==
  /\ [][ RepeatTripStep
         => /\ currentNode' = IF HasNode(wf, "response_sender")
                              THEN "response_sender" ELSE NodesGet(wf, "end")
            /\ pc' = "returned"
            /\ UNCHANGED <<workflowSteps, lastResult, allResults, dispatches,
                           tokensUsed, finalResponse>> ]_vars
  /\ [][ guardTripped = "repeat"
         => UNCHANGED <<currentNode, workflowSteps, lastResult, allResults,
                        dispatches, pc>> ]_vars

\* the two-node cycle after the trip: response_sender selected, not traced
C36_Witness ==
  /\ wf = CycleWorkflow
  /\ guardTripped = "repeat"
  /\ currentNode = "response_sender"
  /\ VisitCount(workflowSteps, "response_sender") = 0
  /\ workflowSteps[Len(workflowSteps)].node = "pong"
  /\ lastResult = allResults[Len(allResults)]
  /\ Len(allResults) = Len(workflowSteps)

\* the graph has no agent_escalation node and a dispatch of the run failed
FailedWithoutEscalation ==
  /\ ~HasNode(wf, "agent_escalation")
  /\ errors # <<>>
  /\ guardTripped = ""

\* C37: when a dispatch returns an error result or throws and the graph has no
\* agent_escalation node, the run ends at once: no further node is
\* dispatched, exactly one error is recorded and execute returns normally.
C37_FailureWithoutEscalationEndsRun ==
  /\ [][ (FailedDispatch /\ ~HasNode(wf, "agent_escalation"))
         => /\ currentNode' = Undefined
            /\ errors = <<>>
            /\ Len(errors') = 1 ]_vars
  /\ [][ FailedWithoutEscalation
         => /\ dispatches' = dispatches
            /\ workflowSteps' = workflowSteps
            /\ errors' = errors
            /\ pc = "running" => pc' = "returned" ]_vars
  /\ [](FailedWithoutEscalation
        => /\ currentNode = Undefined
           /\ Len(errors) = 1
           /\ pc \in { "running", "returned" })

\* the graph without escalation returned right after a dispatch threw
C37_WitnessThrow ==
  /\ wf = ThrowNoEscalationWorkflow
  /\ pc = "returned"
  /\ Faulted
  /\ Len(errors) = 1
  /\ dispatches = 2
  /\ currentNode = Undefined

\* the graph without escalation returned right after its nlp node failed
C37_Witness ==
  /\ wf = NoEscalationWorkflow
  /\ pc = "returned"
  /\ Len(errors) = 1
  /\ currentNode = Undefined
  /\ workflowSteps[Len(workflowSteps)].node = "language_detector"
  /\ workflowSteps[Len(workflowSteps)].result.hasError
  /\ VisitCount(workflowSteps, "response_sender") = 0

(***************************************************************************)
(* POST /api/test-chat: concurrent requests on the module's sessions Map   *)
(***************************************************************************)
MaxRequests == 3

Requests == 1 .. MaxRequests

\* the session ids the requests carry in req.body.sessionId
SessionIds == { "s1", "s2" }

\* sessions.get(id) === undefined
NoSession == 0

\* the session object a request creates when the Map has none for its id
NewSession(id) == [id |-> id, messages |-> <<>>, totalTokens |-> 0]

\* the entries pushed on session.messages, tagged with the request they are of
UserMessage(r) == [type |-> "user", request |-> r]

BotMessage(r) == [type |-> "bot", request |-> r]

\* result.tokensUsed of the request's execute call
ExecuteTokens == 0 .. MaxTokensPerCall

\* a request as it arrives: clearSession set or not, and its session id
Arrivals ==
  { [kind |-> k, sessionId |-> id, pc |-> "arrived", session |-> NoSession,
     tokensUsed |-> 0] : k \in { "chat", "clear" }, id \in SessionIds }

RouteInit ==
  /\ wf = MainWorkflow
  /\ user_message = EmptyText
  /\ metadata = NoMetadata
  /\ language = ""
  /\ messageType = ""
  /\ transcribed = FALSE
  /\ currentNode = Undefined
  /\ pc = "route"
  /\ iterationCount = 0
  /\ workflowSteps = <<>>
  /\ errors = <<>>
  /\ allResults = <<>>
  /\ lastResult = NoResult
  /\ tokensUsed = 0
  /\ finalResponse = EmptyText
  /\ visitedNodes = {}
  /\ dispatches = 0
  /\ guardTripped = ""
  /\ adapterCalls = 0
  /\ runs = <<>>
  /\ sessions = [id \in SessionIds |-> NoSession]
  /\ heap = <<>>
  /\ requests \in [Requests -> Arrivals]
  /\ rnode = NoNode /\ rresult = NoResult /\ rtarget = ""

\* what a step of the route leaves alone: the engine's run state
EngineUnchanged ==
  UNCHANGED <<wf, user_message, metadata, language, messageType, transcribed,
              currentNode, pc, iterationCount, workflowSteps, errors,
              allResults, lastResult, tokensUsed, finalResponse, visitedNodes,
              dispatches, guardTripped, adapterCalls, runs,
              rnode, rresult, rtarget>>

\* if (clearSession) { sessions.delete(currentSessionId); return res.json(...) }
ClearSession(r) ==
  /\ pc = "route"
  /\ requests[r].pc = "arrived"
  /\ requests[r].kind = "clear"
  /\ sessions' = [sessions EXCEPT ![requests[r].sessionId] = NoSession]
  /\ requests' = [requests EXCEPT ![r].pc = "done"]
  /\ UNCHANGED heap
  /\ EngineUnchanged

\* the handler up to `await workflowEngine.execute(context)`: get or create
\* the session, push the user message, start the run
BeginChat(r) ==
  /\ pc = "route"
  /\ requests[r].pc = "arrived"
  /\ requests[r].kind = "chat"
  /\ LET id == requests[r].sessionId
         found == sessions[id]
         session == IF found # NoSession THEN found ELSE Len(heap) + 1
         created == IF found # NoSession THEN heap
                    ELSE Append(heap, NewSession(id))
     IN  /\ sessions' = [sessions EXCEPT ![id] = session]
         /\ heap' = [created EXCEPT ![session].messages = Append(@, UserMessage(r))]
         /\ requests' = [requests EXCEPT ![r].pc = "waiting",
                                         ![r].session = session]
  /\ EngineUnchanged

\* the handler looking the session up again after the await, by its id
FinishChatLookup(r) ==
  /\ pc = "route"
  /\ requests[r].pc = "waiting"
  /\ LET found == sessions[requests[r].sessionId]
         session == IF found # NoSession THEN found ELSE requests[r].session
     IN  \E t \in ExecuteTokens :
           /\ heap' = [heap EXCEPT
                         ![session].messages = Append(@, BotMessage(r)),
                         ![session].totalTokens = @ + t]
           /\ requests' = [requests EXCEPT ![r].pc = "done", ![r].tokensUsed = t]
  /\ UNCHANGED sessions
  /\ EngineUnchanged

\* the handler after the await: push the bot message on the session object
\* it holds, add the run's tokens, answer
FinishChat(r) ==
  /\ pc = "route"
  /\ requests[r].pc = "waiting"
  /\ \E t \in ExecuteTokens :
       /\ heap' = [heap EXCEPT
                     ![requests[r].session].messages = Append(@, BotMessage(r)),
                     ![requests[r].session].totalTokens = @ + t]
       /\ requests' = [requests EXCEPT ![r].pc = "done", ![r].tokensUsed = t]
  /\ UNCHANGED sessions
  /\ EngineUnchanged

RouteNext ==
  \E r \in Requests :
    \/ ClearSession(r)
    \/ BeginChat(r)
    \/ FinishChat(r)

RouteSpec == RouteInit /\ [][RouteNext]_vars

\* the message list of the session the Map holds for id
MessagesOf(id) == heap[sessions[id]].messages

\* C38: under any interleaving of concurrent requests for one session id the
\* message list alternates strictly: every bot message comes right after the
\* user message of the same request, and no two user messages of completed
\* requests are consecutive.
C38_MessagesAlternate ==
  \A id \in SessionIds :
    sessions[id] # NoSession
    => \A i \in 1 .. Len(MessagesOf(id)) :
         /\ MessagesOf(id)[i].type = "bot"
            => /\ i > 1
               /\ MessagesOf(id)[i - 1] = UserMessage(MessagesOf(id)[i].request)
         /\ (i > 1 /\ MessagesOf(id)[i].type = "user"
                   /\ MessagesOf(id)[i - 1].type = "user")
            => \/ requests[MessagesOf(id)[i].request].pc # "done"
               \/ requests[MessagesOf(id)[i - 1].request].pc # "done"

\* the request holds a session object that the Map no longer holds for its
\* id: a clearSession request completed after it pushed its user message
Orphaned(r) ==
  /\ requests[r].session # NoSession
  /\ sessions[requests[r].sessionId] # requests[r].session

\* the tokens added to a session object by the completed requests n .. 1
RECURSIVE TokensAdded(_, _)
TokensAdded(session, n) ==
  IF n = 0 THEN 0
  ELSE TokensAdded(session, n - 1)
       + (IF requests[n].session = session /\ requests[n].pc = "done"
          THEN requests[n].tokensUsed ELSE 0)

\* C39: once a clearSession request for an id has completed while another
\* request for the id waits on execute, that request's user message, bot reply
\* and tokens never appear in the sessions Map: the id has no entry until a
\* later request creates a fresh session, empty and with totalTokens = 0.
C39_ClearedSessionStaysOut ==
  /\ [](\A id \in SessionIds :
          sessions[id] # NoSession
          => /\ \A i \in 1 .. Len(MessagesOf(id)) :
                  requests[MessagesOf(id)[i].request].session = sessions[id]
             /\ heap[sessions[id]].totalTokens
                = TokensAdded(sessions[id], MaxRequests))
  /\ [][ \A r \in Requests :
           (requests[r].kind = "clear" /\ requests[r].pc = "arrived"
            /\ requests'[r].pc = "done")
           => sessions'[requests[r].sessionId] = NoSession ]_vars
  /\ [][ \A id \in SessionIds :
           /\ sessions'[id] # sessions[id]
              => sessions[id] = NoSession \/ sessions'[id] = NoSession
           /\ (sessions[id] = NoSession /\ sessions'[id] # NoSession)
              => /\ sessions'[id] = Len(heap) + 1
                 /\ heap'[sessions'[id]].totalTokens = 0
                 /\ \E r \in Requests :
                      /\ requests[r].pc = "arrived"
                      /\ heap'[sessions'[id]].messages = <<UserMessage(r)>> ]_vars

\* a request still waiting on execute whose session was cleared, and a later
\* request that created a fresh session for the id
C39_Witness ==
  \E a, k, c \in Requests :
    /\ requests[a].kind = "chat" /\ requests[a].pc = "waiting"
    /\ requests[k].kind = "clear" /\ requests[k].pc = "done"
    /\ requests[c].kind = "chat" /\ requests[c].pc = "waiting"
    /\ requests[a].sessionId = "s1"
    /\ requests[k].sessionId = "s1"
    /\ requests[c].sessionId = "s1"
    /\ Orphaned(a)
    /\ heap[requests[a].session].messages = <<UserMessage(a)>>
    /\ sessions["s1"] = requests[c].session
    /\ MessagesOf("s1") = <<UserMessage(c)>>
    /\ heap[sessions["s1"]].totalTokens = 0

\* a request answered on its cleared session, and a later request on a fresh
\* session: the first one's messages and tokens are only on the orphan
C39_WitnessAnswered ==
  \E a, k, c \in Requests :
    /\ requests[a].kind = "chat" /\ requests[a].pc = "done"
    /\ requests[k].kind = "clear" /\ requests[k].pc = "done"
    /\ requests[c].kind = "chat" /\ requests[c].pc = "done"
    /\ requests[a].sessionId = "s1"
    /\ requests[k].sessionId = "s1"
    /\ requests[c].sessionId = "s1"
    /\ Orphaned(a)
    /\ heap[requests[a].session].messages = <<UserMessage(a), BotMessage(a)>>
    /\ requests[a].tokensUsed = 2
    /\ sessions["s1"] = requests[c].session
    /\ MessagesOf("s1") = <<UserMessage(c), BotMessage(c)>>
    /\ heap[sessions["s1"]].totalTokens = requests[c].tokensUsed

====
